---- MODULE Spec2Model ----
(***************************************************************************)
(* Lamington Road Market hardware sourcing engine.                         *)
(*                                                                         *)
(* The engines are stateless: every operation is a function of its         *)
(* arguments and of tables built once by the constructors.  The state of   *)
(* the model is one request in flight and its response.  Init draws the    *)
(* request from bounded sets of arguments; one action per engine operation *)
(* computes the response the code computes for it.  An operation that      *)
(* reads the system clock draws the month it reads, and may be called a    *)
(* second time with the same arguments.                                    *)
(*                                                                         *)
(* Strings are sequences of one-character strings, so that toLowerCase,    *)
(* toUpperCase, trim, includes and the regular expressions act on          *)
(* characters as they do in the code.                                      *)
(*                                                                         *)
(* JavaScript numbers are modelled as exact fractions <<n, d>> with d >= 0 *)
(* in lowest terms: <<n, d>> with d > 0 is the number n/d, <<1, 0>> is     *)
(* Infinity, <<-1, 0>> is -Infinity and <<0, 0>> is NaN.  Rounding of      *)
(* IEEE doubles and the sign of zero are not modelled.                     *)
(***************************************************************************)
EXTENDS Integers, Sequences, FiniteSets, TLC

\* previous is the response to the call before the last one of the same
\* request, for the operations that are called twice
VARIABLES request, response, previous

vars == <<request, response, previous>>

----------------------------------------------------------------------------
(* JavaScript number arithmetic                                            *)

RECURSIVE GCD(_, _)
GCD(a, b) == IF b = 0 THEN a ELSE GCD(b, a % b)

Abs(x) == IF x < 0 THEN -x ELSE x

Sign(x) == IF x > 0 THEN 1 ELSE IF x < 0 THEN -1 ELSE 0

\* the fraction n/d in lowest terms with a non-negative denominator
Frac(n, d) ==
    IF d = 0 THEN <<Sign(n), 0>>
    ELSE LET g == GCD(Abs(n), Abs(d))
             s == IF d < 0 THEN -1 ELSE 1
         IN  <<(s * n) \div g, (s * d) \div g>>

Num(n) == <<n, 1>>
NaN == <<0, 0>>
Infinity == <<1, 0>>

IsNaN(x) == x[1] = 0 /\ x[2] = 0
IsFinite(x) == x[2] > 0

NumNeg(x) == <<-x[1], x[2]>>

NumAdd(x, y) ==
    IF IsNaN(x) \/ IsNaN(y) THEN NaN
    ELSE IF x[2] = 0 /\ y[2] = 0 THEN (IF x[1] = y[1] THEN x ELSE NaN)
    ELSE IF x[2] = 0 THEN x
    ELSE IF y[2] = 0 THEN y
    ELSE Frac(x[1] * y[2] + y[1] * x[2], x[2] * y[2])

NumSub(x, y) == NumAdd(x, NumNeg(y))

NumMul(x, y) == Frac(x[1] * y[1], x[2] * y[2])

NumDiv(x, y) ==
    IF IsNaN(x) \/ IsNaN(y) THEN NaN
    ELSE IF y[2] = 0 THEN (IF x[2] = 0 THEN NaN ELSE Num(0))
    ELSE IF y[1] < 0 THEN Frac(-(x[1] * y[2]), x[2] * (-y[1]))
    ELSE Frac(x[1] * y[2], x[2] * y[1])

\* a/b < c/d for b, d > 0, by comparing the integer parts and then the
\* remainders, so that no product of the two fractions' terms is formed
RECURSIVE FracLt(_, _, _, _)
FracLt(a, b, c, d) ==
    LET qa == a \div b
        qc == c \div d
        ra == a - qa * b
        rc == c - qc * d
    IN  IF qa # qc THEN qa < qc
        ELSE IF ra = 0 THEN rc > 0
        ELSE IF rc = 0 THEN FALSE
        ELSE FracLt(d, rc, b, ra)

\* x < y as JavaScript evaluates it: false when either side is NaN
NumLt(x, y) ==
    /\ ~IsNaN(x)
    /\ ~IsNaN(y)
    /\ IF x[2] = 0 /\ y[2] = 0 THEN x[1] < y[1]
       ELSE IF x[2] = 0 THEN x[1] < 0
       ELSE IF y[2] = 0 THEN y[1] > 0
       ELSE FracLt(x[1], x[2], y[1], y[2])

\* x !== y: true when either side is NaN
NumNe(x, y) == IsNaN(x) \/ IsNaN(y) \/ x # y

NumGt(x, y) == NumLt(y, x)
NumLe(x, y) == ~IsNaN(x) /\ ~IsNaN(y) /\ ~NumLt(y, x)
NumGe(x, y) == NumLe(y, x)

\* Math.min, Math.max, Math.abs: NaN when an argument is NaN
MathMin(x, y) == IF IsNaN(x) \/ IsNaN(y) THEN NaN ELSE IF NumLt(y, x) THEN y ELSE x
MathMax(x, y) == IF IsNaN(x) \/ IsNaN(y) THEN NaN ELSE IF NumLt(x, y) THEN y ELSE x
MathAbs(x) == <<Abs(x[1]), x[2]>>

\* Math.floor
MathFloor(x) == IF ~IsFinite(x) THEN x ELSE Num(x[1] \div x[2])

\* Math.round of a finite number: floor(x + 1/2)
MathRound(x) ==
    IF ~IsFinite(x) THEN x ELSE Num((2 * x[1] + x[2]) \div (2 * x[2]))

----------------------------------------------------------------------------
(* JavaScript strings, as sequences of characters                          *)

Digits == {"0", "1", "2", "3", "4", "5", "6", "7", "8", "9"}
LowerLetters == {"a", "b", "c", "d", "e", "f", "g", "h", "i", "j", "k", "l", "m",
                 "n", "o", "p", "q", "r", "s", "t", "u", "v", "w", "x", "y", "z"}
UpperLetters == {"A", "B", "C", "D", "E", "F", "G", "H", "I", "J", "K", "L", "M",
                 "N", "O", "P", "Q", "R", "S", "T", "U", "V", "W", "X", "Y", "Z"}
Alphabet == <<"a", "b", "c", "d", "e", "f", "g", "h", "i", "j", "k", "l", "m", "n", "o", "p", "q", "r", "s", "t", "u", "v", "w", "x", "y", "z">>
AlphabetUpper == <<"A", "B", "C", "D", "E", "F", "G", "H", "I", "J", "K", "L", "M", "N", "O", "P", "Q", "R", "S", "T", "U", "V", "W", "X", "Y", "Z">>
WhiteSpace == {" ", "\t"}
\* \w
WordChars == LowerLetters \cup UpperLetters \cup Digits \cup {"_"}

LetterIndex(c, letters) == CHOOSE k \in 1..26 : letters[k] = c

LowerChar(c) == IF c \in UpperLetters THEN Alphabet[LetterIndex(c, AlphabetUpper)] ELSE c
UpperChar(c) == IF c \in LowerLetters THEN AlphabetUpper[LetterIndex(c, Alphabet)] ELSE c

toLowerCase(s) == [k \in 1..Len(s) |-> LowerChar(s[k])]
toUpperCase(s) == [k \in 1..Len(s) |-> UpperChar(s[k])]

RECURSIVE TrimStart(_)
TrimStart(s) == IF s # <<>> /\ Head(s) \in WhiteSpace THEN TrimStart(Tail(s)) ELSE s

RECURSIVE TrimEnd(_)
TrimEnd(s) ==
    IF s # <<>> /\ s[Len(s)] \in WhiteSpace THEN TrimEnd(SubSeq(s, 1, Len(s) - 1)) ELSE s

trim(s) == TrimEnd(TrimStart(s))

\* s.includes(w)
includes(s, w) ==
    \E i \in 1..(Len(s) - Len(w) + 1) : SubSeq(s, i, i + Len(w) - 1) = w

\* s.replace(/\s+/g, '')
RemoveWhiteSpace(s) == SelectSeq(s, LAMBDA c : c \notin WhiteSpace)

DigitValue(c) == CHOOSE v \in 0..9 : <<"0", "1", "2", "3", "4", "5", "6", "7", "8", "9">>[v + 1] = c

RECURSIVE parseInt(_)
parseInt(s) ==
    IF s = <<>> THEN 0 ELSE 10 * parseInt(SubSeq(s, 1, Len(s) - 1)) + DigitValue(s[Len(s)])

RECURSIVE Pow10(_)
Pow10(k) == IF k = 0 THEN 1 ELSE 10 * Pow10(k - 1)

\* parseFloat of a string matched by \d+(?:\.\d+)?
parseFloat(s) ==
    LET digits == SelectSeq(s, LAMBDA c : c \in Digits)
        dot == IF \E i \in 1..Len(s) : s[i] = "." THEN CHOOSE i \in 1..Len(s) : s[i] = "." ELSE 0
        decimals == IF dot = 0 THEN 0 ELSE Len(s) - dot
    IN  Frac(parseInt(digits), Pow10(decimals))

----------------------------------------------------------------------------
(* Regular expressions: a backtracking matcher that lists the matches of a *)
(* pattern at a position in the order JavaScript tries them, so that the   *)
(* first one is the match the engine reports.                              *)

Chars(S) == [t |-> "set", s |-> S]
\* a literal of a case-sensitive pattern, and of a pattern with the i flag
Lit(w) == [t |-> "lit", w |-> w, i |-> FALSE]
LitI(w) == [t |-> "lit", w |-> w, i |-> TRUE]
WordB == [t |-> "wb"]
Cat(rs) == [t |-> "cat", rs |-> rs]
Alt(rs) == [t |-> "alt", rs |-> rs]
Star(r) == [t |-> "star", r |-> r]
Plus(r) == Cat(<<r, Star(r)>>)
Opt(r) == Alt(<<r, Lit(<<>>)>>)
\* capture group 1
Grp(r) == [t |-> "grp", r |-> r]

IsWordAt(s, i) == i >= 1 /\ i <= Len(s) /\ s[i] \in WordChars

\* \b between s[i-1] and s[i]
IsWordBoundary(s, i) == IsWordAt(s, i - 1) # IsWordAt(s, i)

LitMatches(r, s, i) ==
    /\ i + Len(r.w) - 1 <= Len(s)
    /\ \A k \in 1..Len(r.w) :
          IF r.i THEN LowerChar(s[i + k - 1]) = LowerChar(r.w[k]) ELSE s[i + k - 1] = r.w[k]

RECURSIVE Match(_, _, _, _), CatEach(_, _, _, _, _), StarEach(_, _, _, _, _), AltEach(_, _, _, _, _),
          MatchCat(_, _, _, _, _)

\* the matches of r in s starting at i, as [e |-> position after the match,
\* c |-> <<start, end>> of capture group 1], in priority order
Match(r, s, i, cap) ==
    CASE r.t = "set" -> IF i <= Len(s) /\ s[i] \in r.s THEN <<[e |-> i + 1, c |-> cap]>> ELSE <<>>
      [] r.t = "lit" -> IF LitMatches(r, s, i) THEN <<[e |-> i + Len(r.w), c |-> cap]>> ELSE <<>>
      [] r.t = "wb" -> IF IsWordBoundary(s, i) THEN <<[e |-> i, c |-> cap]>> ELSE <<>>
      [] r.t = "cat" -> MatchCat(r.rs, 1, s, i, cap)
      [] r.t = "alt" -> AltEach(r.rs, 1, s, i, cap)
      [] r.t = "star" -> StarEach(Match(r.r, s, i, cap), 1, r, s, i) \o <<[e |-> i, c |-> cap]>>
      [] r.t = "grp" -> LET ms == Match(r.r, s, i, cap)
                        IN  [k \in 1..Len(ms) |-> [e |-> ms[k].e, c |-> <<i, ms[k].e>>]]

MatchCat(rs, j, s, i, cap) ==
    IF j > Len(rs) THEN <<[e |-> i, c |-> cap]>>
    ELSE CatEach(Match(rs[j], s, i, cap), 1, rs, j + 1, s)

CatEach(ms, k, rs, j, s) ==
    IF k > Len(ms) THEN <<>>
    ELSE MatchCat(rs, j, s, ms[k].e, ms[k].c) \o CatEach(ms, k + 1, rs, j, s)

StarEach(ms, k, r, s, i) ==
    IF k > Len(ms) THEN <<>>
    ELSE (IF ms[k].e > i THEN Match(r, s, ms[k].e, ms[k].c) ELSE <<>>)
            \o StarEach(ms, k + 1, r, s, i)

AltEach(rs, j, s, i, cap) ==
    IF j > Len(rs) THEN <<>>
    ELSE Match(rs[j], s, i, cap) \o AltEach(rs, j + 1, s, i, cap)

\* text is match[0], the matched part of the string, and group1 is match[1]
NoMatch == [found |-> FALSE, text |-> <<>>, group1 |-> <<>>]

RECURSIVE ExecFrom(_, _, _)
ExecFrom(r, s, i) ==
    IF i > Len(s) + 1 THEN NoMatch
    ELSE LET ms == Match(r, s, i, <<1, 1>>)
         IN  IF ms # <<>>
             THEN [found |-> TRUE, text |-> SubSeq(s, i, ms[1].e - 1),
                   group1 |-> SubSeq(s, ms[1].c[1], ms[1].c[2] - 1)]
             ELSE ExecFrom(r, s, i + 1)

\* s.match(r) for a pattern without the g flag: the leftmost match
RegExpMatch(s, r) == ExecFrom(r, s, 1)

\* r.test(s)
RegExpTest(r, s) == RegExpMatch(s, r).found

----------------------------------------------------------------------------
(* ComponentParser                                                         *)

PROCESSOR == "processor"
MEMORY == "memory"
STORAGE == "storage"
GRAPHICS == "graphics"
MOTHERBOARD == "motherboard"
PERIPHERALS == "peripherals"

\* [a-z] and \d of a pattern with the i flag
AZ == Chars(LowerLetters \cup UpperLetters)
D == Chars(Digits)
\* \s*
WS == Star(Chars(WhiteSpace))
\* (\d+(?:\.\d+)?)
Number == Grp(Cat(<<Plus(D), Opt(Cat(<<Lit(<<".">>), Plus(D)>>))>>))

\* the componentPatterns map, in insertion order
componentPatterns == <<
    [category |-> PROCESSOR, patterns |-> <<
        Cat(<<WordB, Grp(Alt(<<LitI(<<"c", "p", "u">>), LitI(<<"p", "r", "o", "c", "e", "s", "s", "o", "r">>), LitI(<<"i", "n", "t", "e", "l">>), LitI(<<"a", "m", "d">>),
                               Cat(<<LitI(<<"i">>), Chars({"3", "5", "7", "9"})>>),
                               LitI(<<"r", "y", "z", "e", "n">>), LitI(<<"c", "o", "r", "e">>)>>)), WordB>>),
        Cat(<<WordB, Grp(Alt(<<Cat(<<LitI(<<"i">>), Chars({"3", "5", "7", "9"}), Lit(<<"-">>), Plus(D), Star(AZ)>>),
                               Cat(<<LitI(<<"r", "y", "z", "e", "n">>), WS, Chars({"3", "5", "7", "9"})>>),
                               LitI(<<"x", "e", "o", "n">>), LitI(<<"t", "h", "r", "e", "a", "d", "r", "i", "p", "p", "e", "r">>)>>)), WordB>>) >>],
    [category |-> MEMORY, patterns |-> <<
        Cat(<<WordB, Grp(Alt(<<LitI(<<"r", "a", "m">>), LitI(<<"m", "e", "m", "o", "r", "y">>),
                               Cat(<<LitI(<<"d", "d", "r">>), Chars({"3", "4", "5"})>>),
                               LitI(<<"d", "i", "m", "m">>), LitI(<<"s", "o", "d", "i", "m", "m">>)>>)), WordB>>),
        Cat(<<WordB, Grp(Alt(<<Cat(<<Plus(D), LitI(<<"g", "b">>)>>), Cat(<<Plus(D), LitI(<<"m", "b">>)>>)>>)), WordB>>),
        Cat(<<WordB, Grp(Alt(<<Cat(<<LitI(<<"p", "c">>), Plus(D), Lit(<<"-">>), Plus(D)>>),
                               Cat(<<LitI(<<"d", "d", "r">>), Chars({"3", "4", "5"}), Lit(<<"-">>), Plus(D)>>)>>)), WordB>>) >>],
    [category |-> GRAPHICS, patterns |-> <<
        Cat(<<WordB, Grp(Alt(<<LitI(<<"g", "p", "u">>), LitI(<<"g", "r", "a", "p", "h", "i", "c", "s">>), LitI(<<"v", "i", "d", "e", "o">>), LitI(<<"r", "t", "x">>),
                               LitI(<<"g", "t", "x">>), LitI(<<"r", "a", "d", "e", "o", "n">>), LitI(<<"r", "x">>), LitI(<<"v", "e", "g", "a">>)>>)), WordB>>),
        Cat(<<WordB, Grp(Alt(<<Cat(<<LitI(<<"r", "t", "x">>), WS, Plus(D)>>), Cat(<<LitI(<<"g", "t", "x">>), WS, Plus(D)>>),
                               Cat(<<LitI(<<"r", "x">>), WS, Plus(D)>>), Cat(<<LitI(<<"v", "e", "g", "a">>), WS, Plus(D)>>)>>)), WordB>>) >>],
    [category |-> STORAGE, patterns |-> <<
        Cat(<<WordB, Grp(Alt(<<LitI(<<"s", "s", "d">>), LitI(<<"h", "d", "d">>), LitI(<<"n", "v", "m", "e">>), LitI(<<"s", "a", "t", "a">>),
                               LitI(<<"s", "t", "o", "r", "a", "g", "e">>), LitI(<<"d", "r", "i", "v", "e">>)>>)), WordB>>),
        Cat(<<WordB, Grp(Alt(<<Cat(<<Plus(D), LitI(<<"t", "b">>)>>), Cat(<<Plus(D), LitI(<<"g", "b">>)>>)>>)), WS,
              Alt(<<LitI(<<"s", "s", "d">>), LitI(<<"h", "d", "d">>)>>), WordB>>) >>],
    [category |-> MOTHERBOARD, patterns |-> <<
        Cat(<<WordB, Grp(Alt(<<LitI(<<"m", "o", "t", "h", "e", "r", "b", "o", "a", "r", "d">>), LitI(<<"m", "o", "b", "o">>), LitI(<<"m", "a", "i", "n", "b", "o", "a", "r", "d">>), LitI(<<"m", "b">>)>>)), WordB>>),
        Cat(<<WordB, Grp(Alt(<<Cat(<<LitI(<<"l", "g", "a">>), Plus(D)>>), Cat(<<LitI(<<"a", "m">>), Chars({"4", "5"})>>),
                               LitI(<<"s", "o", "c", "k", "e", "t">>)>>)), WordB>>) >>] >>

electricalPatterns == [
    voltage |-> Cat(<<Number, WS, LitI(<<"v">>), Opt(LitI(<<"o", "l", "t">>)), Opt(LitI(<<"s">>)), WordB>>),
    frequency |-> Cat(<<Number, WS, Alt(<<LitI(<<"m", "h", "z">>), LitI(<<"g", "h", "z">>)>>), WordB>>),
    power |-> Cat(<<Number, WS, LitI(<<"w">>), Opt(LitI(<<"a", "t", "t">>)), Opt(LitI(<<"s">>)), WordB>>),
    current |-> Cat(<<Number, WS, LitI(<<"a">>), Opt(LitI(<<"m", "p">>)), Opt(LitI(<<"s">>)), WordB>>) ]

\* (?:mm|cm|inch)(?:es)?\s*
LengthUnit == Cat(<<Alt(<<LitI(<<"m", "m">>), LitI(<<"c", "m">>), LitI(<<"i", "n", "c", "h">>)>>), Opt(LitI(<<"e", "s">>)), WS>>)

physicalPatterns == [
    weight |-> Cat(<<Number, WS, Alt(<<LitI(<<"g">>), LitI(<<"k", "g">>), LitI(<<"g", "r", "a", "m">>), LitI(<<"k", "i", "l", "o", "g", "r", "a", "m">>)>>),
                     Opt(LitI(<<"s">>)), WordB>>),
    length |-> Cat(<<Number, WS, LengthUnit, Alt(<<LitI(<<"l", "o", "n", "g">>), LitI(<<"l", "e", "n", "g", "t", "h">>)>>), WordB>>),
    width |-> Cat(<<Number, WS, LengthUnit, Alt(<<LitI(<<"w", "i", "d", "e">>), LitI(<<"w", "i", "d", "t", "h">>)>>), WordB>>),
    height |-> Cat(<<Number, WS, LengthUnit, Alt(<<LitI(<<"h", "i", "g", "h">>), LitI(<<"h", "e", "i", "g", "h", "t">>), LitI(<<"t", "a", "l", "l">>)>>), WordB>>) ]

compatibilityPatterns == [
    socket |-> Cat(<<WordB, Grp(Alt(<<Cat(<<LitI(<<"l", "g", "a">>), Plus(D)>>),
                                      Cat(<<LitI(<<"a", "m">>), Chars({"4", "5"})>>),
                                      Cat(<<LitI(<<"f", "m">>), Chars({"1", "2"})>>),
                                      Cat(<<LitI(<<"s", "o", "c", "k", "e", "t">>), WS, Plus(Chars(WordChars))>>)>>)), WordB>>),
    interface |-> Cat(<<WordB, Grp(Alt(<<Cat(<<LitI(<<"p", "c", "i">>), Opt(LitI(<<"e">>)), WS,
                                               Star(Chars(Digits \cup {"x", "X"}))>>),
                                         Cat(<<LitI(<<"s", "a", "t", "a">>), Opt(Chars({"2", "3"}))>>),
                                         LitI(<<"n", "v", "m", "e">>),
                                         Cat(<<LitI(<<"u", "s", "b">>), Opt(Chars({"2", "3"}))>>),
                                         Cat(<<LitI(<<"d", "d", "r">>), Chars({"3", "4", "5"})>>)>>)), WordB>>),
    formFactor |-> Cat(<<WordB, Grp(Alt(<<LitI(<<"a", "t", "x">>),
                                          Cat(<<LitI(<<"m", "i", "c", "r", "o">>), Opt(Lit(<<"-">>)), LitI(<<"a", "t", "x">>)>>),
                                          Cat(<<LitI(<<"m", "i", "n", "i">>), Opt(Lit(<<"-">>)), LitI(<<"i", "t", "x">>)>>),
                                          Cat(<<LitI(<<"e">>), Opt(Lit(<<"-">>)), LitI(<<"a", "t", "x">>)>>),
                                          LitI(<<"d", "i", "m", "m">>), LitI(<<"s", "o", "d", "i", "m", "m">>)>>)), WordB>>) ]

\* the number of patterns of the list that match the input
RECURSIVE CountMatches(_, _, _)
CountMatches(patterns, k, input) ==
    IF k > Len(patterns) THEN 0
    ELSE (IF RegExpTest(patterns[k], input) THEN 1 ELSE 0) + CountMatches(patterns, k + 1, input)

RECURSIVE identifyCategoryFrom(_, _, _, _)
identifyCategoryFrom(k, input, bestMatch, maxMatches) ==
    IF k > Len(componentPatterns) THEN bestMatch
    ELSE LET matches == CountMatches(componentPatterns[k].patterns, 1, input)
         IN  IF matches > maxMatches
             THEN identifyCategoryFrom(k + 1, input, componentPatterns[k].category, matches)
             ELSE identifyCategoryFrom(k + 1, input, bestMatch, maxMatches)

\* identifyCategory with a fault: one matching pattern is not enough
identifyCategoryFromTwo(input) == identifyCategoryFrom(1, input, PERIPHERALS, 1)

identifyCategory(input) == identifyCategoryFrom(1, input, PERIPHERALS, 0)

UNKNOWN == <<"U", "N", "K", "N", "O", "W", "N">>

partNumberPatterns == <<
    Cat(<<WordB, Grp(Cat(<<Plus(AZ), Plus(D), Star(AZ),
                           Star(Cat(<<Lit(<<"-">>), Plus(D), Star(AZ)>>))>>)), WordB>>),
    Cat(<<WordB, Grp(Cat(<<LitI(<<"i">>), Chars({"3", "5", "7", "9"}), Lit(<<"-">>), Plus(D), Star(AZ)>>)), WordB>>),
    Cat(<<WordB, Grp(Cat(<<LitI(<<"r", "y", "z", "e", "n">>), WS, Chars({"3", "5", "7", "9"}), WS, Plus(D), Star(AZ)>>)), WordB>>),
    Cat(<<WordB, Grp(Cat(<<Chars({"r", "g", "R", "G"}), LitI(<<"t">>), Opt(LitI(<<"x">>)), WS, Plus(D), Star(AZ)>>)), WordB>>),
    Cat(<<WordB, Grp(Cat(<<LitI(<<"r", "x">>), WS, Plus(D), Star(AZ)>>)), WordB>>) >>

RECURSIVE extractPartNumberFrom(_, _)
extractPartNumberFrom(k, input) ==
    IF k > Len(partNumberPatterns) THEN UNKNOWN
    ELSE LET match == RegExpMatch(input, partNumberPatterns[k])
         IN  IF match.found THEN RemoveWhiteSpace(match.group1)
             ELSE extractPartNumberFrom(k + 1, input)

extractPartNumber(input) == extractPartNumberFrom(1, input)

extractElectricalSpecs(input) ==
    LET voltageMatch == RegExpMatch(input, electricalPatterns.voltage)
        freqMatch == RegExpMatch(input, electricalPatterns.frequency)
        powerMatch == RegExpMatch(input, electricalPatterns.power)
        currentMatch == RegExpMatch(input, electricalPatterns.current)
        freq == parseFloat(freqMatch.group1)
    IN  [voltage |-> IF voltageMatch.found THEN parseFloat(voltageMatch.group1) ELSE Num(0),
         current |-> IF currentMatch.found THEN parseFloat(currentMatch.group1) ELSE Num(0),
         frequency |-> IF freqMatch.found
                       THEN (IF includes(toLowerCase(input), <<"g", "h", "z">>) THEN NumMul(freq, Num(1000)) ELSE freq)
                       ELSE Num(0),
         powerConsumption |-> IF powerMatch.found THEN parseFloat(powerMatch.group1) ELSE Num(0)]

extractPhysicalSpecs(input) ==
    LET weightMatch == RegExpMatch(input, physicalPatterns.weight)
        lengthMatch == RegExpMatch(input, physicalPatterns.length)
        widthMatch == RegExpMatch(input, physicalPatterns.width)
        heightMatch == RegExpMatch(input, physicalPatterns.height)
        formFactorMatch == RegExpMatch(input, compatibilityPatterns.formFactor)
        weight == parseFloat(weightMatch.group1)
    IN  [length |-> IF lengthMatch.found THEN parseFloat(lengthMatch.group1) ELSE Num(0),
         width |-> IF widthMatch.found THEN parseFloat(widthMatch.group1) ELSE Num(0),
         height |-> IF heightMatch.found THEN parseFloat(heightMatch.group1) ELSE Num(0),
         weight |-> IF weightMatch.found
                    THEN (IF includes(toLowerCase(input), <<"k", "g">>) THEN NumMul(weight, Num(1000)) ELSE weight)
                    ELSE Num(0),
         formFactor |-> IF formFactorMatch.found THEN toUpperCase(formFactorMatch.group1) ELSE UNKNOWN]

\* an optional string field that is undefined is the empty sequence: the
\* code only tests such fields for truthiness and for equality with
\* non-empty strings
Undefined == <<>>
Truthy(str) == str # <<>>

extractCompatibility(input) ==
    LET socketMatch == RegExpMatch(input, compatibilityPatterns.socket)
        interfaceMatch == RegExpMatch(input, compatibilityPatterns.interface)
        socketType == IF socketMatch.found THEN toUpperCase(socketMatch.group1) ELSE Undefined
        pinMatch == RegExpMatch(socketType, Grp(Plus(D)))
    IN  [socketType |-> socketType,
         interfaceType |-> IF interfaceMatch.found THEN toUpperCase(interfaceMatch.group1) ELSE Undefined,
         pinConfiguration |-> IF Truthy(socketType) /\ pinMatch.found
                              THEN <<pinMatch.group1 \o <<" ", "p", "i", "n">>>> ELSE <<>>]

CategoryUnclear == "Component category unclear - please specify processor, memory, graphics, etc."
NoElectricalSpecs == "No electrical specifications found - please provide voltage, frequency, or power requirements"

\* checkAmbiguities with a fault: the electrical check is left out
checkAmbiguitiesCategoryOnly(category, partNumber, electricalSpecs) ==
    IF category = PERIPHERALS /\ ~Truthy(partNumber) THEN <<CategoryUnclear>> ELSE <<>>

checkAmbiguities(category, partNumber, electricalSpecs) ==
    (IF category = PERIPHERALS /\ ~Truthy(partNumber) THEN <<CategoryUnclear>> ELSE <<>>)
    \o (IF electricalSpecs.voltage = Num(0) /\ electricalSpecs.frequency = Num(0)
        THEN <<NoElectricalSpecs>> ELSE <<>>)

\* the confidence before Math.min caps it
confidenceSum(partNumber, category, electricalSpecs, compatibility) ==
    LET base == Frac(1, 2)
        c1 == IF Truthy(partNumber) /\ partNumber # UNKNOWN THEN NumAdd(base, Frac(3, 10)) ELSE base
        c2 == IF category # PERIPHERALS THEN NumAdd(c1, Frac(2, 10)) ELSE c1
        c3 == IF NumGt(electricalSpecs.voltage, Num(0)) \/ NumGt(electricalSpecs.frequency, Num(0))
              THEN NumAdd(c2, Frac(2, 10)) ELSE c2
    IN  IF Truthy(compatibility.socketType) \/ Truthy(compatibility.interfaceType)
        THEN NumAdd(c3, Frac(1, 10)) ELSE c3

\* calculateConfidence with a fault: the cap is left out
calculateConfidenceUncapped(partNumber, category, electricalSpecs, compatibility) ==
    confidenceSum(partNumber, category, electricalSpecs, compatibility)

calculateConfidence(partNumber, category, electricalSpecs, compatibility) ==
    MathMin(Num(1), confidenceSum(partNumber, category, electricalSpecs, compatibility))

\* the errors of validateParameters that do not depend on the category
parameterErrors(electricalSpecs, physicalSpecs) ==
    (IF NumLt(electricalSpecs.voltage, Num(0)) THEN <<"Voltage cannot be negative">> ELSE <<>>)
    \o (IF NumLt(electricalSpecs.frequency, Num(0)) THEN <<"Frequency cannot be negative">> ELSE <<>>)
    \o (IF NumLt(electricalSpecs.powerConsumption, Num(0))
        THEN <<"Power consumption cannot be negative">> ELSE <<>>)
    \o (IF NumLt(physicalSpecs.weight, Num(0)) THEN <<"Weight cannot be negative">> ELSE <<>>)

\* the errors of the switch over the category
categoryErrors(specs) ==
    CASE specs.category = PROCESSOR ->
            IF specs.electricalSpecs.frequency = Num(0)
            THEN <<"Processor must have a frequency specification">> ELSE <<>>
      [] specs.category = MEMORY ->
            IF ~Truthy(specs.compatibility.socketType)
            THEN <<"Memory must specify socket type (DDR3, DDR4, DDR5)">> ELSE <<>>
      [] specs.category = GRAPHICS ->
            IF specs.electricalSpecs.powerConsumption = Num(0)
            THEN <<"Graphics card should specify power consumption">> ELSE <<>>
      [] OTHER -> <<>>

validateParameters(specs) ==
    Len(parameterErrors(specs.electricalSpecs, specs.physicalSpecs) \o categoryErrors(specs)) = 0

parseSpecification(input) ==
    LET normalizedInput == trim(toLowerCase(input))
        category == identifyCategory(normalizedInput)
        partNumber == extractPartNumber(normalizedInput)
        electricalSpecs == extractElectricalSpecs(normalizedInput)
        physicalSpecs == extractPhysicalSpecs(normalizedInput)
        compatibility == extractCompatibility(normalizedInput)
    IN  [originalInput |-> input,
         extractedSpecs |-> [partNumber |-> IF Truthy(partNumber) THEN partNumber ELSE UNKNOWN,
                             category |-> category,
                             electricalSpecs |-> electricalSpecs,
                             physicalSpecs |-> physicalSpecs,
                             compatibility |-> compatibility],
         confidence |-> calculateConfidence(partNumber, category, electricalSpecs, compatibility),
         ambiguities |-> checkAmbiguities(category, partNumber, electricalSpecs),
         validationErrors |-> <<>>]

----------------------------------------------------------------------------
(* FirstCopyHeuristic                                                      *)

OEM == "oem"
FIRST_COPY == "first_copy"
GENERIC == "generic"
UNKNOWN_AUTHENTICITY == "unknown"

\* the categories that have an entry in oemStandards and in thermalProfiles
HasOEMStandard(category) == category \in {PROCESSOR, MEMORY, GRAPHICS}
HasThermalProfile(category) == category \in {PROCESSOR, GRAPHICS, MEMORY}

oemStandards(category) ==
    CASE category = PROCESSOR -> [baseWeight |-> Num(80), weightPerCore |-> Num(5),
                                  weightPerGHz |-> Num(2), weightTolerance |-> Num(15)]
      [] category = MEMORY -> [baseWeight |-> Num(40), weightPerGB |-> Num(2), weightTolerance |-> Num(10)]
      [] category = GRAPHICS -> [baseWeight |-> Num(500), weightPerWatt |-> Num(3), weightTolerance |-> Num(20)]

thermalProfiles(category) ==
    CASE category = PROCESSOR -> [heatSyncEfficiency |-> Frac(85, 100), thermalConductivity |-> Num(150),
                                  thermalMass |-> Frac(2, 100), coolingRequirement |-> Frac(15, 10)]
      [] category = GRAPHICS -> [heatSyncEfficiency |-> Frac(9, 10), thermalConductivity |-> Num(200),
                                 thermalMass |-> Frac(1, 10), coolingRequirement |-> Num(2)]
      [] category = MEMORY -> [heatSyncEfficiency |-> Frac(6, 10), thermalConductivity |-> Num(50),
                               thermalMass |-> Frac(5, 1000), coolingRequirement |-> Frac(5, 10)]

estimateCoreCount(component) ==
    LET partNumber == toLowerCase(component.partNumber)
        frequencyGHz == NumDiv(component.specifications.electrical.frequency, Num(1000))
    IN  IF includes(partNumber, <<"i", "3">>) THEN Num(4)
        ELSE IF includes(partNumber, <<"i", "5">>) THEN Num(6)
        ELSE IF includes(partNumber, <<"i", "7">>) THEN Num(8)
        ELSE IF includes(partNumber, <<"i", "9">>) THEN Num(12)
        ELSE IF includes(partNumber, <<"r", "y", "z", "e", "n", " ", "3">>) THEN Num(4)
        ELSE IF includes(partNumber, <<"r", "y", "z", "e", "n", " ", "5">>) THEN Num(6)
        ELSE IF includes(partNumber, <<"r", "y", "z", "e", "n", " ", "7">>) THEN Num(8)
        ELSE IF includes(partNumber, <<"r", "y", "z", "e", "n", " ", "9">>) THEN Num(12)
        ELSE MathMax(Num(2), MathMin(Num(16), MathRound(NumMul(frequencyGHz, Num(2)))))

estimateMemoryCapacity(component) ==
    LET partNumber == toLowerCase(component.partNumber)
        capacityMatch == RegExpMatch(partNumber, Cat(<<Grp(Plus(D)), Lit(<<"g", "b">>)>>))
        frequency == component.specifications.electrical.frequency
    IN  IF capacityMatch.found THEN Num(parseInt(capacityMatch.group1))
        ELSE IF NumGe(frequency, Num(3200)) THEN Num(16)
        ELSE IF NumGe(frequency, Num(2400)) THEN Num(8)
        ELSE Num(4)

calculateExpectedWeight(component, standard) ==
    CASE component.category = PROCESSOR ->
            LET frequencyGHz == NumDiv(component.specifications.electrical.frequency, Num(1000))
            IN  NumAdd(standard.baseWeight,
                       NumAdd(NumMul(estimateCoreCount(component), standard.weightPerCore),
                              NumMul(frequencyGHz, standard.weightPerGHz)))
      [] component.category = MEMORY ->
            NumAdd(standard.baseWeight, NumMul(estimateMemoryCapacity(component), standard.weightPerGB))
      [] component.category = GRAPHICS ->
            NumAdd(standard.baseWeight,
                   NumMul(component.specifications.electrical.powerConsumption, standard.weightPerWatt))
      [] OTHER -> standard.baseWeight

\* the WeightAnalysis record analyzeWeight returns for a category with a standard
weightAnalysisOf(measuredWeight, oemStandardWeight, variance, weightTolerance) ==
    [measuredWeight |-> measuredWeight, oemStandardWeight |-> oemStandardWeight,
     variance |-> variance,
     withinTolerance |-> NumLe(MathAbs(variance), weightTolerance)]

\* ((measuredWeight - expectedWeight) / expectedWeight) * 100
weightVariance(measuredWeight, expectedWeight) ==
    NumMul(NumDiv(NumSub(measuredWeight, expectedWeight), expectedWeight), Num(100))

compareToStandard(measuredWeight, expectedWeight, weightTolerance) ==
    weightAnalysisOf(measuredWeight, expectedWeight,
                     weightVariance(measuredWeight, expectedWeight), weightTolerance)

analyzeWeight(component) ==
    IF ~HasOEMStandard(component.category)
    THEN [measuredWeight |-> component.specifications.physical.weight,
          oemStandardWeight |-> component.specifications.physical.weight,
          variance |-> Num(0), withinTolerance |-> TRUE]
    ELSE compareToStandard(component.specifications.physical.weight,
                           calculateExpectedWeight(component, oemStandards(component.category)),
                           oemStandards(component.category).weightTolerance)

\* the ratio calculateHeatSyncQuality returns
efficiencyRatio(actualEfficiency, requiredEfficiency) ==
    IF NumGe(actualEfficiency, requiredEfficiency) THEN Frac(9, 10)
    ELSE NumDiv(actualEfficiency, requiredEfficiency)

calculateHeatSyncQuality(component, profile, powerDensity) ==
    efficiencyRatio(profile.heatSyncEfficiency, MathMin(Num(1), NumDiv(powerDensity, Num(100))))

calculateThermalConductivity(component, profile) ==
    LET requiredConductivity == NumMul(component.specifications.electrical.powerConsumption, Frac(1, 2))
    IN  MathMin(Num(1), NumDiv(profile.thermalConductivity, MathMax(requiredConductivity, Num(50))))

calculateCoolingEfficiency(component, profile) ==
    LET efficiency == NumDiv(NumMul(profile.thermalMass, profile.coolingRequirement),
                             NumMul(component.specifications.electrical.powerConsumption, Frac(1, 100)))
    IN  MathMin(Num(1), efficiency)

\* the material quality calculateMaterialQuality derives from the weight analysis
materialQualityOf(weightAnalysis) ==
    IF weightAnalysis.withinTolerance THEN Frac(9, 10)
    ELSE MathMax(Frac(3, 10),
                 NumSub(Frac(9, 10), NumDiv(MathAbs(weightAnalysis.variance), Num(100))))

calculateMaterialQuality(component, profile) == materialQualityOf(analyzeWeight(component))

\* powerConsumption / (length * width)
powerDensityOf(component) ==
    NumDiv(component.specifications.electrical.powerConsumption,
           NumMul(component.specifications.physical.length,
                  component.specifications.physical.width))

\* the ThermalAnalysis record assessHeatSync builds from the category's profile
thermalAnalysisOf(component, thermalProfile) ==
    [heatSyncQuality |-> calculateHeatSyncQuality(component, thermalProfile, powerDensityOf(component)),
     thermalConductivity |-> calculateThermalConductivity(component, thermalProfile),
     coolingEfficiency |-> calculateCoolingEfficiency(component, thermalProfile),
     materialQuality |-> calculateMaterialQuality(component, thermalProfile)]

assessHeatSync(component) ==
    IF ~HasThermalProfile(component.category)
    THEN [heatSyncQuality |-> Frac(1, 2), thermalConductivity |-> Frac(1, 2),
          coolingEfficiency |-> Frac(1, 2), materialQuality |-> Frac(1, 2)]
    ELSE thermalAnalysisOf(component, thermalProfiles(component.category))

\* the assessmentFunction of the four PROCESSOR quality indicators
dieQuality(component) ==
    LET efficiency == NumDiv(component.specifications.electrical.frequency,
                             component.specifications.electrical.powerConsumption)
    IN  MathMin(Num(1), NumDiv(efficiency, Num(30)))

packageQuality(component) ==
    LET volume == NumMul(NumMul(component.specifications.physical.length,
                                component.specifications.physical.width),
                         component.specifications.physical.height)
        density == NumDiv(component.specifications.physical.weight, volume)
    IN  IF NumGt(density, Num(2)) THEN Frac(9, 10) ELSE Frac(6, 10)

thermalInterface(component) ==
    IF component.authenticity = OEM THEN Frac(95, 100) ELSE Frac(7, 10)

manufacturingPrecision(component) ==
    IF analyzeWeight(component).withinTolerance THEN Frac(9, 10) ELSE Frac(6, 10)

\* the qualityIndicators map: only PROCESSOR has indicators
qualityIndicators(component) ==
    IF component.category = PROCESSOR
    THEN << [name |-> <<"D", "i", "e", " ", "Q", "u", "a", "l", "i", "t", "y">>, weight |-> Frac(3, 10), score |-> dieQuality(component)],
            [name |-> <<"P", "a", "c", "k", "a", "g", "e", " ", "Q", "u", "a", "l", "i", "t", "y">>, weight |-> Frac(25, 100), score |-> packageQuality(component)],
            [name |-> <<"T", "h", "e", "r", "m", "a", "l", " ", "I", "n", "t", "e", "r", "f", "a", "c", "e">>, weight |-> Frac(25, 100), score |-> thermalInterface(component)],
            [name |-> <<"M", "a", "n", "u", "f", "a", "c", "t", "u", "r", "i", "n", "g", " ", "P", "r", "e", "c", "i", "s", "i", "o", "n">>, weight |-> Frac(2, 10),
             score |-> manufacturingPrecision(component)] >>
    ELSE <<>>

\* the loop of assessQualityMetrics over the indicators from the k-th on
RECURSIVE accumulateQuality(_, _, _)
accumulateQuality(indicators, k, acc) ==
    IF k > Len(indicators) THEN acc
    ELSE LET indicator == indicators[k]
             contribution == NumMul(indicator.score, indicator.weight)
         IN  IF includes(indicator.name, <<"D", "i", "e">>) \/ includes(indicator.name, <<"P", "a", "c", "k", "a", "g", "e">>)
             THEN accumulateQuality(indicators, k + 1,
                                    [acc EXCEPT !.buildQuality = NumAdd(@, contribution)])
             ELSE IF includes(indicator.name, <<"M", "a", "t", "e", "r", "i", "a", "l">>) \/ includes(indicator.name, <<"T", "h", "e", "r", "m", "a", "l">>)
             THEN accumulateQuality(indicators, k + 1,
                                    [acc EXCEPT !.materialGrade = NumAdd(@, contribution)])
             ELSE accumulateQuality(indicators, k + 1,
                                    [acc EXCEPT !.finishQuality = NumAdd(@, contribution)])

\* the QualityMetrics record assessQualityMetrics returns
qualityMetricsOf(buildQuality, materialGrade, finishQuality) ==
    [buildQuality |-> buildQuality, materialGrade |-> materialGrade,
     finishQuality |-> finishQuality,
     overallScore |-> NumDiv(NumAdd(NumAdd(buildQuality, materialGrade), finishQuality), Num(30))]

\* the 0-10 scale of assessQualityMetrics applied to the three sums
normalizeQuality(sums) ==
    qualityMetricsOf(MathMin(Num(10), NumMul(sums.buildQuality, Num(10))),
                     MathMin(Num(10), NumMul(sums.materialGrade, Num(10))),
                     MathMin(Num(10), NumMul(sums.finishQuality, Num(10))))

assessQualityMetrics(component) ==
    normalizeQuality(accumulateQuality(qualityIndicators(component), 1,
                                       [buildQuality |-> Num(0), materialGrade |-> Num(0),
                                        finishQuality |-> Num(0)]))

authenticityAdjustment(authenticity) ==
    CASE authenticity = OEM -> Num(20)
      [] authenticity = FIRST_COPY -> Num(10)
      [] authenticity = GENERIC -> Num(-10)
      [] authenticity = UNKNOWN_AUTHENTICITY -> Num(-20)
      [] OTHER -> Num(0)

\* the score after the weight analysis, from the base of 50
weightContribution(weightAnalysis) ==
    IF weightAnalysis.withinTolerance THEN NumAdd(Num(50), Num(30))
    ELSE NumSub(Num(50), MathMin(Num(30), NumMul(MathAbs(weightAnalysis.variance), Num(2))))

\* the mean of the four thermal measures
thermalScoreOf(thermalAnalysis) ==
    NumDiv(NumAdd(NumAdd(NumAdd(thermalAnalysis.heatSyncQuality,
                                thermalAnalysis.thermalConductivity),
                         thermalAnalysis.coolingEfficiency),
                  thermalAnalysis.materialQuality), Num(4))

\* the body of calculateAuthenticityScore once the three analyses are made
authenticityScoreOf(component, weightAnalysis, thermalAnalysis, quality) ==
    [confidenceScore |->
        MathMax(Num(0),
                MathMin(Num(100),
                        NumAdd(NumAdd(NumAdd(weightContribution(weightAnalysis),
                                             NumMul(thermalScoreOf(thermalAnalysis), Num(25))),
                                      NumMul(quality.overallScore, Num(25))),
                               authenticityAdjustment(component.authenticity)))),
     weightAnalysis |-> weightAnalysis,
     thermalAnalysis |-> thermalAnalysis,
     qualityIndicators |-> quality]

calculateAuthenticityScore(component) ==
    authenticityScoreOf(component, analyzeWeight(component), assessHeatSync(component),
                        assessQualityMetrics(component))

----------------------------------------------------------------------------
(* HardwareSourcingEngine                                                  *)

IN_STOCK == "in_stock"
LIMITED_STOCK == "limited_stock"
OUT_OF_STOCK == "out_of_stock"
UNKNOWN_AVAILABILITY == "unknown"

\* the component database, in the order the loops over it visit it:
\* the processors cpu-001 and cpu-002, then the memory module mem-001
componentDatabase == <<
    [id |-> "cpu-001", partNumber |-> <<"i", "7", "-", "1", "2", "7", "0", "0", "K">>, category |-> PROCESSOR,
     specifications |-> [
        electrical |-> [voltage |-> Frac(12, 10), current |-> Num(125),
                        frequency |-> Num(3600), powerConsumption |-> Num(125)],
        physical |-> [length |-> Frac(375, 10), width |-> Frac(375, 10), height |-> Frac(75, 10),
                      weight |-> Num(85), formFactor |-> <<"L", "G", "A", "1", "7", "0", "0">>],
        compatibility |-> [socketType |-> <<"L", "G", "A", "1", "7", "0", "0">>, interfaceType |-> <<"P", "C", "I", "e", " ", "5", ".", "0">>,
                           pinConfiguration |-> <<<<"1", "7", "0", "0", " ", "p", "i", "n">>>>]],
     authenticity |-> OEM, availability |-> IN_STOCK,
     location |-> [sectionId |-> "proc-zone", shopNumber |-> "A-101", floor |-> 1]],
    [id |-> "cpu-002", partNumber |-> <<"R", "7", "-", "5", "8", "0", "0", "X">>, category |-> PROCESSOR,
     specifications |-> [
        electrical |-> [voltage |-> Frac(135, 100), current |-> Num(105),
                        frequency |-> Num(3800), powerConsumption |-> Num(105)],
        physical |-> [length |-> Num(40), width |-> Num(40), height |-> Num(8),
                      weight |-> Num(90), formFactor |-> <<"A", "M", "4">>],
        compatibility |-> [socketType |-> <<"A", "M", "4">>, interfaceType |-> <<"P", "C", "I", "e", " ", "4", ".", "0">>,
                           pinConfiguration |-> <<<<"1", "3", "3", "1", " ", "p", "i", "n">>>>]],
     authenticity |-> OEM, availability |-> IN_STOCK,
     location |-> [sectionId |-> "proc-zone", shopNumber |-> "A-102", floor |-> 1]],
    [id |-> "mem-001", partNumber |-> <<"C", "M", "K", "1", "6", "G", "X", "4", "M", "2", "D", "3", "2", "0", "0", "C", "1", "6">>, category |-> MEMORY,
     specifications |-> [
        electrical |-> [voltage |-> Frac(135, 100), current |-> Num(2),
                        frequency |-> Num(3200), powerConsumption |-> Num(5)],
        physical |-> [length |-> Frac(13335, 100), width |-> Num(7), height |-> Num(31),
                      weight |-> Num(45), formFactor |-> <<"D", "I", "M", "M">>],
        compatibility |-> [socketType |-> <<"D", "D", "R", "4">>, interfaceType |-> <<"D", "D", "R", "4">>,
                           pinConfiguration |-> <<<<"2", "8", "8", " ", "p", "i", "n">>>>]],
     authenticity |-> OEM, availability |-> IN_STOCK,
     location |-> [sectionId |-> "mem-zone", shopNumber |-> "B-201", floor |-> 2]] >>

getDefaultLocation == [sectionId |-> "general", shopNumber |-> "INFO-01", floor |-> 1]

createPlaceholderComponent(specification) ==
    [id |-> "placeholder", partNumber |-> UNKNOWN, category |-> PERIPHERALS,
     specifications |-> [
        electrical |-> [voltage |-> Num(0), current |-> Num(0),
                        frequency |-> Num(0), powerConsumption |-> Num(0)],
        physical |-> [length |-> Num(0), width |-> Num(0), height |-> Num(0),
                      weight |-> Num(0), formFactor |-> UNKNOWN],
        compatibility |-> [socketType |-> Undefined, interfaceType |-> Undefined,
                           pinConfiguration |-> <<>>]],
     authenticity |-> UNKNOWN_AUTHENTICITY, availability |-> OUT_OF_STOCK,
     location |-> getDefaultLocation]

\* |component value - query value| > component value * tolerance
OutOfTolerance(componentValue, queryValue) ==
    NumGt(MathAbs(NumSub(componentValue, queryValue)), NumMul(componentValue, Frac(1, 10)))

isComponentMatch(component, specs) ==
    IF component.category # specs.category THEN FALSE
    ELSE IF /\ Truthy(specs.partNumber)
            /\ specs.partNumber # UNKNOWN
            /\ includes(toLowerCase(component.partNumber), toLowerCase(specs.partNumber))
    THEN TRUE
    ELSE IF /\ NumGt(specs.electricalSpecs.voltage, Num(0))
            /\ OutOfTolerance(component.specifications.electrical.voltage, specs.electricalSpecs.voltage)
    THEN FALSE
    ELSE IF /\ NumGt(specs.electricalSpecs.frequency, Num(0))
            /\ OutOfTolerance(component.specifications.electrical.frequency, specs.electricalSpecs.frequency)
    THEN FALSE
    ELSE IF /\ Truthy(specs.compatibility.socketType)
            /\ component.specifications.compatibility.socketType # specs.compatibility.socketType
    THEN FALSE
    ELSE IF /\ Truthy(specs.compatibility.interfaceType)
            /\ component.specifications.compatibility.interfaceType # specs.compatibility.interfaceType
    THEN FALSE
    ELSE TRUE

findMatchingComponents(specs) ==
    SelectSeq(componentDatabase, LAMBDA component : isComponentMatch(component, specs))

\* Math.max(0, weight - (|component value - query value| / query value * 100))
FieldScore(weight, componentValue, queryValue) ==
    MathMax(Num(0),
            NumSub(Num(weight),
                   NumMul(NumDiv(MathAbs(NumSub(componentValue, queryValue)), queryValue), Num(100))))

calculateCompatibilityScore(component, specs) ==
    LET q == specs.electricalSpecs
        e == component.specifications.electrical
        categoryScore == IF component.category = specs.category THEN Num(25) ELSE Num(0)
        hasVoltage == NumGt(q.voltage, Num(0))
        hasFrequency == NumGt(q.frequency, Num(0))
        hasPower == NumGt(q.powerConsumption, Num(0))
        electricalMax == (IF hasVoltage THEN 10 ELSE 0) + (IF hasFrequency THEN 15 ELSE 0)
                            + (IF hasPower THEN 10 ELSE 0)
        electricalScore ==
            NumAdd(NumAdd(IF hasVoltage THEN FieldScore(10, e.voltage, q.voltage) ELSE Num(0),
                          IF hasFrequency THEN FieldScore(15, e.frequency, q.frequency) ELSE Num(0)),
                   IF hasPower THEN FieldScore(10, e.powerConsumption, q.powerConsumption) ELSE Num(0))
        hasSocket == Truthy(specs.compatibility.socketType)
        hasInterface == Truthy(specs.compatibility.interfaceType)
        compatMax == (IF hasSocket THEN 20 ELSE 0) + (IF hasInterface THEN 20 ELSE 0)
        compatScore ==
            (IF hasSocket /\ component.specifications.compatibility.socketType = specs.compatibility.socketType
             THEN 20 ELSE 0)
            + (IF hasInterface
                  /\ component.specifications.compatibility.interfaceType = specs.compatibility.interfaceType
               THEN 20 ELSE 0)
        score == NumAdd(NumAdd(categoryScore,
                               IF electricalMax > 0
                               THEN NumMul(NumDiv(electricalScore, Num(electricalMax)), Num(35))
                               ELSE Num(0)),
                        IF compatMax > 0
                        THEN NumMul(NumDiv(Num(compatScore), Num(compatMax)), Num(40))
                        ELSE Num(0))
        maxScore == Num(25 + 35 + 40)
    IN  IF NumGt(maxScore, Num(0)) THEN NumDiv(score, maxScore) ELSE Num(0)

calculateQualityScore(component) ==
    NumDiv(calculateAuthenticityScore(component).confidenceScore, Num(100))

\* the sign of x - y as Array.prototype.sort reads a comparator's result:
\* NaN counts as 0
CompareDifference(x, y) ==
    IF NumLt(x, y) THEN -1 ELSE IF NumLt(y, x) THEN 1 ELSE 0

\* Array.prototype.sort with a comparator: a stable sort, as an insertion sort
RECURSIVE InsertSorted(_, _, _)
InsertSorted(Compare(_, _), x, sorted) ==
    IF sorted = <<>> THEN <<x>>
    ELSE LET last == sorted[Len(sorted)]
         IN  IF Compare(last, x) > 0
             THEN InsertSorted(Compare, x, SubSeq(sorted, 1, Len(sorted) - 1)) \o <<last>>
             ELSE sorted \o <<x>>

RECURSIVE SortFrom(_, _, _, _)
SortFrom(Compare(_, _), seq, k, sorted) ==
    IF k > Len(seq) THEN sorted
    ELSE SortFrom(Compare, seq, k + 1, InsertSorted(Compare, seq[k], sorted))

ArraySort(seq, Compare(_, _)) == SortFrom(Compare, seq, 1, <<>>)

\* arr.slice(0, n)
SliceTo(seq, n) == SubSeq(seq, 1, IF Len(seq) < n THEN Len(seq) ELSE n)

MaxAlternatives == 5

\* the threshold of findAlternativeComponents
isAlternative(compatibilityScore) == NumGt(compatibilityScore, Frac(1, 2))

compareAlternatives(a, b) == CompareDifference(b.compatibilityScore, a.compatibilityScore)

\* excludeId is "" when findAlternativeComponents is called without excludeComponent
\* every component of the database with its compatibility score
scoredComponents(specs) ==
    [k \in 1..Len(componentDatabase) |->
        [component |-> componentDatabase[k],
         compatibilityScore |-> calculateCompatibilityScore(componentDatabase[k], specs)]]

findAlternativeComponents(specs, excludeId) ==
    SliceTo(ArraySort(SelectSeq(scoredComponents(specs),
                                LAMBDA alternative :
                                    /\ alternative.component.id # excludeId
                                    /\ alternative.component.category = specs.category
                                    /\ isAlternative(alternative.compatibilityScore)),
                      compareAlternatives),
            MaxAlternatives)

availabilityOrder(status) ==
    CASE status = IN_STOCK -> Num(3)
      [] status = LIMITED_STOCK -> Num(2)
      [] status = OUT_OF_STOCK -> Num(1)
      [] status = UNKNOWN_AVAILABILITY -> Num(0)
      [] OTHER -> NaN

\* the comparator of rankSearchResults with a fault: ascending compatibility
compareSearchResultsAscending(a, b) ==
    IF NumNe(a.compatibilityScore, b.compatibilityScore)
    THEN CompareDifference(a.compatibilityScore, b.compatibilityScore)
    ELSE IF NumNe(a.qualityScore, b.qualityScore)
    THEN CompareDifference(b.qualityScore, a.qualityScore)
    ELSE CompareDifference(availabilityOrder(b.availabilityStatus), availabilityOrder(a.availabilityStatus))

compareSearchResults(a, b) ==
    IF NumNe(a.compatibilityScore, b.compatibilityScore)
    THEN CompareDifference(b.compatibilityScore, a.compatibilityScore)
    ELSE IF NumNe(a.qualityScore, b.qualityScore)
    THEN CompareDifference(b.qualityScore, a.qualityScore)
    ELSE CompareDifference(availabilityOrder(b.availabilityStatus), availabilityOrder(a.availabilityStatus))

rankSearchResults(results) == ArraySort(results, compareSearchResults)

clarificationResult(specification, ambiguities) ==
    <<[component |-> createPlaceholderComponent(specification),
       availabilityStatus |-> UNKNOWN_AVAILABILITY,
       location |-> getDefaultLocation,
       compatibilityScore |-> Num(0),
       qualityScore |-> Num(0),
       requiresClarification |-> TRUE,
       clarificationPrompts |-> ambiguities,
       alternatives |-> <<>>]>>

noMatchResult(specification, specs) ==
    <<[component |-> createPlaceholderComponent(specification),
       availabilityStatus |-> OUT_OF_STOCK,
       location |-> getDefaultLocation,
       compatibilityScore |-> Num(0),
       qualityScore |-> Num(0),
       requiresClarification |-> FALSE,
       clarificationPrompts |-> <<>>,
       alternatives |-> findAlternativeComponents(specs, "")]>>

matchResults(matches, specs) ==
    rankSearchResults([k \in 1..Len(matches) |->
        [component |-> matches[k],
         availabilityStatus |-> matches[k].availability,
         location |-> matches[k].location,
         compatibilityScore |-> calculateCompatibilityScore(matches[k], specs),
         qualityScore |-> calculateQualityScore(matches[k]),
         requiresClarification |-> FALSE,
         clarificationPrompts |-> <<>>,
         alternatives |-> findAlternativeComponents(specs, matches[k].id)]])

\* the ids of the components of the database, in the order
\* findMatchingComponents passes them to isComponentMatch
databaseIds == [k \in 1..Len(componentDatabase) |-> componentDatabase[k].id]

\* the results of searchComponents once the matches are known
searchResults(specification, specs, matches) ==
    IF matches = <<>> THEN noMatchResult(specification, specs)
    ELSE matchResults(matches, specs)

\* searchComponents past the clarification check
searchInventory(specification, parsedSpec) ==
    [results |-> searchResults(specification, parsedSpec.extractedSpecs,
                               findMatchingComponents(parsedSpec.extractedSpecs)),
     parsedSpec |-> parsedSpec,
     examined |-> databaseIds]

\* searchComponents after the parse
searchParsed(specification, parsedSpec) ==
    IF parsedSpec.ambiguities # <<>>
    THEN [results |-> clarificationResult(specification, parsedSpec.ambiguities),
          parsedSpec |-> parsedSpec,
          examined |-> <<>>]
    ELSE searchInventory(specification, parsedSpec)

\* searchComponents with a fault: an ambiguous query is searched all the same
searchComponentsNoClarification(specification) ==
    searchInventory(specification, parseSpecification(specification))

\* searchComponents: results is the list it returns; parsedSpec is its local
\* of that name; examined lists the components it passed to isComponentMatch
searchComponents(specification) ==
    searchParsed(specification, parseSpecification(specification))

----------------------------------------------------------------------------
(* JugaadDetector                                                          *)
(* A solution carries the fields the ranking and the safety checks read;   *)
(* its solutionId, assemblyInstructions and safetyWarnings are texts and   *)
(* are left out.                                                           *)

POWER_SUPPLY == "power_supply"
COOLING == "cooling"

\* arr.reduce((sum, x) => sum + Field(x), 0)
RECURSIVE SumFrom(_, _, _, _)
SumFrom(seq, Field(_), k, sum) ==
    IF k > Len(seq) THEN sum
    ELSE SumFrom(seq, Field, k + 1, NumAdd(sum, Field(seq[k])))

Reduce(seq, Field(_)) == SumFrom(seq, Field, 1, Num(0))

\* Math.max(...values) and Math.min(...values)
RECURSIVE MaxFrom(_, _, _)
MaxFrom(values, k, max) ==
    IF k > Len(values) THEN max ELSE MaxFrom(values, k + 1, MathMax(max, values[k]))

RECURSIVE MinFrom(_, _, _)
MinFrom(values, k, min) ==
    IF k > Len(values) THEN min ELSE MinFrom(values, k + 1, MathMin(min, values[k]))

\* the workaround templates, under the keys initializeWorkaroundDatabase sets;
\* estimatedTimes are the estimatedTime of the assemblySteps
workaroundDatabase ==
    [key \in {"POWER_SUPPLY", "GRAPHICS", "MEMORY", "COOLING"} |->
        CASE key = "POWER_SUPPLY" ->
                <<[id |-> "psu_dual_supply", targetCategory |-> POWER_SUPPLY, minimumComponents |-> 2,
                   estimatedTimes |-> <<30, 45>>,
                   reliabilityFactor |-> Frac(7, 10), complexityFactor |-> Frac(8, 10)]>>
          [] key = "GRAPHICS" ->
                <<[id |-> "gpu_external_power", targetCategory |-> GRAPHICS, minimumComponents |-> 1,
                   estimatedTimes |-> <<20, 60>>,
                   reliabilityFactor |-> Frac(6, 10), complexityFactor |-> Frac(9, 10)]>>
          [] key = "MEMORY" ->
                <<[id |-> "mem_voltage_mod", targetCategory |-> MEMORY, minimumComponents |-> 1,
                   estimatedTimes |-> <<25, 40>>,
                   reliabilityFactor |-> Frac(5, 10), complexityFactor |-> Frac(85, 100)]>>
          [] key = "COOLING" ->
                <<[id |-> "custom_cooling_loop", targetCategory |-> COOLING, minimumComponents |-> 3,
                   estimatedTimes |-> <<30, 90, 45>>,
                   reliabilityFactor |-> Frac(8, 10), complexityFactor |-> Frac(7, 10)]>>]

\* category.toString() is the value of the enum member, in lower case
getWorkaroundTemplates(targetComponent) ==
    IF targetComponent.category \in DOMAIN workaroundDatabase
    THEN workaroundDatabase[targetComponent.category]
    ELSE <<>>

isComponentSuitableForTemplate(component, template) ==
    IF template.targetCategory = POWER_SUPPLY THEN component.category = POWER_SUPPLY
    ELSE IF template.targetCategory = GRAPHICS
    THEN component.category = GRAPHICS \/ component.category = POWER_SUPPLY
    ELSE IF template.targetCategory = MEMORY THEN component.category = MEMORY
    ELSE IF template.targetCategory = COOLING
    THEN component.category = COOLING \/ component.category = PERIPHERALS
    ELSE FALSE

\* JugaadDetector.findMatchingComponents
jugaadFindMatchingComponents(template, inventory) ==
    SliceTo(SelectSeq(inventory, LAMBDA component : isComponentSuitableForTemplate(component, template)),
            template.minimumComponents + 2)

\* JugaadDetector.calculateReliabilityScore
qualityOf(component) == IF component.authenticity = OEM THEN Num(1) ELSE Frac(7, 10)

jugaadCalculateReliabilityScore(template, components) ==
    MathMin(Num(1),
            MathMax(Num(0),
                    NumMul(NumMul(template.reliabilityFactor,
                                  NumDiv(Reduce(components, qualityOf), Num(Len(components)))),
                           Frac(9, 10))))

calculateComplexityScore(template, components) ==
    MathMin(Num(1),
            MathMax(Num(0),
                    NumAdd(NumAdd(template.complexityFactor,
                                  NumMul(Num(Len(components) - template.minimumComponents), Frac(1, 10))),
                           NumMul(Num(Cardinality({ components[k].category : k \in 1..Len(components) }) - 1),
                                  Frac(5, 100)))))

\* c.pricing?.retailPrice || 0
retailPriceOrZero(component) ==
    IF component.pricing = <<>> THEN Num(0)
    ELSE IF IsNaN(component.pricing[1].retailPrice) THEN Num(0)
    ELSE component.pricing[1].retailPrice

calculateEstimatedCost(components) ==
    NumAdd(NumAdd(Reduce(components, retailPriceOrZero), Num(500)), Num(200))

calculateEstimatedTime(template, components) ==
    MathRound(NumMul(Reduce(template.estimatedTimes, Num),
                     NumAdd(Num(1),
                            NumMul(Num(Len(components) - template.minimumComponents), Frac(2, 10)))))

\* new JugaadSolution(...)
JugaadSolution(targetComponent, alternativeComponents, reliabilityScore, complexityScore, template, estimatedCost, estimatedTime) ==
    [targetComponent |-> targetComponent, alternativeComponents |-> alternativeComponents,
     reliabilityScore |-> reliabilityScore, complexityScore |-> complexityScore,
     template |-> template, estimatedCost |-> estimatedCost, estimatedTime |-> estimatedTime]

\* the comparator of rankSolutions with a fault: complexity descending
compareSolutionsComplexFirst(a, b) ==
    IF NumNe(a.reliabilityScore, b.reliabilityScore)
    THEN CompareDifference(b.reliabilityScore, a.reliabilityScore)
    ELSE IF NumNe(a.complexityScore, b.complexityScore)
    THEN CompareDifference(b.complexityScore, a.complexityScore)
    ELSE CompareDifference(a.estimatedCost, b.estimatedCost)

compareSolutions(a, b) ==
    IF NumNe(a.reliabilityScore, b.reliabilityScore)
    THEN CompareDifference(b.reliabilityScore, a.reliabilityScore)
    ELSE IF NumNe(a.complexityScore, b.complexityScore)
    THEN CompareDifference(a.complexityScore, b.complexityScore)
    ELSE CompareDifference(a.estimatedCost, b.estimatedCost)

rankSolutions(solutions) == ArraySort(solutions, compareSolutions)

\* the solution findAlternatives builds from a template and its matches
solutionFor(targetComponent, template, alternativeComponents) ==
    JugaadSolution(targetComponent, alternativeComponents,
                   jugaadCalculateReliabilityScore(template, alternativeComponents),
                   calculateComplexityScore(template, alternativeComponents),
                   template,
                   calculateEstimatedCost(alternativeComponents),
                   calculateEstimatedTime(template, alternativeComponents))

\* the loop of findAlternatives over the templates from the k-th on
RECURSIVE solutionsFrom(_, _, _, _, _)
solutionsFrom(targetComponent, availableInventory, templates, k, solutions) ==
    IF k > Len(templates) THEN solutions
    ELSE IF Len(jugaadFindMatchingComponents(templates[k], availableInventory))
               >= templates[k].minimumComponents
    THEN solutionsFrom(targetComponent, availableInventory, templates, k + 1,
                       Append(solutions,
                              solutionFor(targetComponent, templates[k],
                                          jugaadFindMatchingComponents(templates[k], availableInventory))))
    ELSE solutionsFrom(targetComponent, availableInventory, templates, k + 1, solutions)

findAlternatives(targetComponent, availableInventory) ==
    rankSolutions(solutionsFrom(targetComponent, availableInventory,
                                getWorkaroundTemplates(targetComponent), 1, <<>>))

voltageOf(component) == component.specifications.electrical.voltage
currentOf(component) == component.specifications.electrical.current
powerConsumptionOf(component) == component.specifications.electrical.powerConsumption
weightOf(component) == component.specifications.physical.weight

\* the voltages of the components: components.map(c => c.specifications.electrical.voltage)
voltagesOf(components) == [k \in 1..Len(components) |-> voltageOf(components[k])]

\* checkElectricalSafety with a fault: the current limit is left out
checkElectricalSafetyVoltageOnly(solution) ==
    ~NumGt(NumDiv(MaxFrom(voltagesOf(solution.alternativeComponents), 1, NumNeg(Infinity)),
                  MinFrom(voltagesOf(solution.alternativeComponents), 1, Infinity)),
           Num(2))

checkElectricalSafety(solution) ==
    IF NumGt(NumDiv(MaxFrom(voltagesOf(solution.alternativeComponents), 1, NumNeg(Infinity)),
                    MinFrom(voltagesOf(solution.alternativeComponents), 1, Infinity)),
             Num(2))
    THEN FALSE
    ELSE IF NumGt(Reduce(solution.alternativeComponents, currentOf), Num(50)) THEN FALSE
    ELSE TRUE

checkThermalSafety(solution) ==
    NumLe(Reduce(solution.alternativeComponents, powerConsumptionOf),
          Num(Len(SelectSeq(solution.alternativeComponents,
                            LAMBDA c : c.category = COOLING)) * 100))

checkMechanicalSafety(solution) ==
    NumLt(Reduce(solution.alternativeComponents, weightOf), Num(5000))

checkCompatibilitySafety(solution) ==
    \A k \in 1..Len(solution.alternativeComponents) :
        solution.alternativeComponents[k].specifications.compatibility.interfaceType # Undefined

\* safetyChecks.every(check => check) over the four checks pushed
validateSafety(solution) ==
    /\ checkElectricalSafety(solution)
    /\ checkThermalSafety(solution)
    /\ checkMechanicalSafety(solution)
    /\ checkCompatibilitySafety(solution)

----------------------------------------------------------------------------
(* NegotiationDelta                                                        *)
(* A NegotiationResult carries its prices and its priceBreakdown; the      *)
(* quantityThresholds, marketConditions and negotiationStrategy texts are  *)
(* left out.                                                               *)

quantityTiers(category) ==
    CASE category = PROCESSOR ->
            <<[minimumQuantity |-> Num(1), discountPercentage |-> Num(0)],
              [minimumQuantity |-> Num(5), discountPercentage |-> Num(8)],
              [minimumQuantity |-> Num(10), discountPercentage |-> Num(15)],
              [minimumQuantity |-> Num(25), discountPercentage |-> Num(22)],
              [minimumQuantity |-> Num(50), discountPercentage |-> Num(30)]>>
      [] category = MEMORY ->
            <<[minimumQuantity |-> Num(1), discountPercentage |-> Num(0)],
              [minimumQuantity |-> Num(4), discountPercentage |-> Num(10)],
              [minimumQuantity |-> Num(10), discountPercentage |-> Num(18)],
              [minimumQuantity |-> Num(20), discountPercentage |-> Num(25)],
              [minimumQuantity |-> Num(50), discountPercentage |-> Num(35)]>>
      [] OTHER -> <<>>

\* the loop of getQuantityDiscount over the tiers from the k-th on
RECURSIVE applicableTierFrom(_, _, _, _)
applicableTierFrom(tiers, quantity, k, applicableTier) ==
    IF k > Len(tiers) THEN applicableTier
    ELSE IF NumGe(quantity, tiers[k].minimumQuantity)
    THEN applicableTierFrom(tiers, quantity, k + 1, tiers[k])
    ELSE applicableTier

\* getQuantityDiscount with a fault: the loop over the tiers is left out
getQuantityDiscountFirstTier(category, quantity) ==
    IF quantityTiers(category) # <<>> THEN quantityTiers(category)[1]
    ELSE [minimumQuantity |-> Num(1), discountPercentage |-> Num(0)]

getQuantityDiscount(category, quantity) ==
    applicableTierFrom(quantityTiers(category), quantity, 1,
                       IF quantityTiers(category) # <<>> THEN quantityTiers(category)[1]
                       ELSE [minimumQuantity |-> Num(1), discountPercentage |-> Num(0)])

\* marketConditions.get(category) || the default condition
getMarketAdjustment(category) ==
    CASE category = PROCESSOR -> [discountAdjustment |-> Num(-2)]
      [] category = MEMORY -> [discountAdjustment |-> Num(3)]
      [] OTHER -> [discountAdjustment |-> Num(0)]

\* vendorId is Undefined when calculateDiscount is called without it
getVendorAdjustment(vendorId) ==
    IF ~Truthy(vendorId) THEN [discountBonus |-> Num(0)]
    ELSE IF vendorId = <<"v", "e", "n", "d", "o", "r", "_", "0", "0", "1">> THEN [discountBonus |-> Num(2)]
    ELSE [discountBonus |-> Num(0)]

\* the seasonalFactors of the months 0 (January) to 11 (December)
seasonalFactors == <<2, 1, 0, -1, 0, 1, -2, -1, 0, -2, -3, -2>>

\* currentMonth is what new Date().getMonth() returns
getSeasonalAdjustment(category, currentMonth) == Num(seasonalFactors[currentMonth + 1])


\* priceBreakdown with a fault: the vendor's bonus follows the season
priceBreakdownOfSeasonalVendor(category, quantity, vendorId, currentMonth) ==
    [quantityDiscount |-> getQuantityDiscount(category, quantity).discountPercentage,
     marketAdjustment |-> getMarketAdjustment(category).discountAdjustment,
     vendorBonus |-> getSeasonalAdjustment(category, currentMonth),
     seasonalAdjustment |-> getSeasonalAdjustment(category, currentMonth)]

priceBreakdownOf(category, quantity, vendorId, currentMonth) ==
    [quantityDiscount |-> getQuantityDiscount(category, quantity).discountPercentage,
     marketAdjustment |-> getMarketAdjustment(category).discountAdjustment,
     vendorBonus |-> getVendorAdjustment(vendorId).discountBonus,
     seasonalAdjustment |-> getSeasonalAdjustment(category, currentMonth)]

totalDiscountPercentageOf(priceBreakdown) ==
    MathMin(Num(50),
            NumAdd(NumAdd(NumAdd(priceBreakdown.quantityDiscount, priceBreakdown.marketAdjustment),
                          priceBreakdown.vendorBonus),
                   priceBreakdown.seasonalAdjustment))

\* discountAmount with a fault: the percentage is taken as an amount
discountAmountFlat(basePrice, totalDiscountPercentage) == totalDiscountPercentage

discountAmount(basePrice, totalDiscountPercentage) ==
    NumDiv(NumMul(basePrice, totalDiscountPercentage), Num(100))

recommendedPriceOf(basePrice, totalDiscountPercentage) ==
    NumSub(basePrice, discountAmount(basePrice, totalDiscountPercentage))

NegotiationResult(basePrice, totalDiscountPercentage, priceBreakdown) ==
    [recommendedPrice |-> recommendedPriceOf(basePrice, totalDiscountPercentage),
     discountPercentage |-> totalDiscountPercentage,
     basePrice |-> basePrice,
     savings |-> NumSub(basePrice, recommendedPriceOf(basePrice, totalDiscountPercentage)),
     priceBreakdown |-> priceBreakdown]

negotiationResultOf(basePrice, priceBreakdown) ==
    NegotiationResult(basePrice, totalDiscountPercentageOf(priceBreakdown), priceBreakdown)

\* currentMonth is the month of the system clock at the call
calculateDiscount(component, quantity, vendorId, currentMonth) ==
    negotiationResultOf(retailPriceOrZero(component),
                        priceBreakdownOf(component.category, quantity, vendorId, currentMonth))

\* the update of bestQuantity, bestUnitPrice and bestSavings
takeIfBetter(maxQuantityAtThisTier, negotiationResult, best) ==
    IF \/ NumGt(maxQuantityAtThisTier, best.quantity)
       \/ /\ maxQuantityAtThisTier = best.quantity
          /\ NumLt(negotiationResult.recommendedPrice, best.unitPrice)
    THEN [quantity |-> maxQuantityAtThisTier,
          unitPrice |-> negotiationResult.recommendedPrice,
          savings |-> negotiationResult.discountPercentage]
    ELSE best

\* the body of the loop of optimizeQuantity for one tier
testTier(tier, negotiationResult, budget, best) ==
    IF /\ NumLe(tier.minimumQuantity, best.quantity)
       /\ NumLe(NumMul(negotiationResult.recommendedPrice, tier.minimumQuantity), budget)
    THEN takeIfBetter(MathFloor(NumDiv(budget, negotiationResult.recommendedPrice)), negotiationResult, best)
    ELSE best

\* the loop of optimizeQuantity over the tiers from the k-th on
RECURSIVE optimizeFrom(_, _, _, _, _, _)
optimizeFrom(component, budget, currentMonth, tiers, k, best) ==
    IF k > Len(tiers) THEN best
    ELSE optimizeFrom(component, budget, currentMonth, tiers, k + 1,
                      testTier(tiers[k],
                               calculateDiscount(component, tiers[k].minimumQuantity, Undefined, currentMonth),
                               budget, best))

\* tiers.find(tier => tier.minimumQuantity > bestQuantity), from the k-th on
RECURSIVE findNextThreshold(_, _, _)
findNextThreshold(tiers, k, bestQuantity) ==
    IF k > Len(tiers) THEN <<>>
    ELSE IF NumGt(tiers[k].minimumQuantity, bestQuantity) THEN <<tiers[k]>>
    ELSE findNextThreshold(tiers, k + 1, bestQuantity)

nextThresholdOf(component, currentMonth, found, bestSavings) ==
    IF found = <<>> THEN <<>>
    ELSE <<[quantity |-> found[1].minimumQuantity,
            unitPrice |-> calculateDiscount(component, found[1].minimumQuantity,
                                            Undefined, currentMonth).recommendedPrice,
            additionalSavings |-> NumSub(found[1].discountPercentage, bestSavings)]>>

QuantityOptimization(component, currentMonth, tiers, best) ==
    [recommendedQuantity |-> best.quantity,
     totalCost |-> NumMul(best.quantity, best.unitPrice),
     costPerUnit |-> best.unitPrice,
     savingsPercentage |-> best.savings,
     nextThreshold |-> nextThresholdOf(component, currentMonth,
                                       findNextThreshold(tiers, 1, best.quantity), best.savings)]

optimizeWithin(component, budget, currentMonth, basePrice, tiers) ==
    QuantityOptimization(component, currentMonth, tiers,
                         optimizeFrom(component, budget, currentMonth, tiers, 1,
                                      [quantity |-> MathFloor(NumDiv(budget, basePrice)),
                                       unitPrice |-> basePrice,
                                       savings |-> Num(0)]))

\* currentMonth is the month of the system clock during the call
optimizeQuantity(component, budget, currentMonth) ==
    IF retailPriceOrZero(component) = Num(0)
    THEN [recommendedQuantity |-> Num(0), totalCost |-> Num(0), costPerUnit |-> Num(0),
          savingsPercentage |-> Num(0), nextThreshold |-> <<>>]
    ELSE optimizeWithin(component, budget, currentMonth, retailPriceOrZero(component),
                        quantityTiers(component.category))

----------------------------------------------------------------------------
(* ComponentBridge                                                         *)
(* An AdapterTemplate carries the fields the compatibility checks read;    *)
(* its name, description, signal type, resolution, physicalSpecs and       *)
(* costRange are left out.                                                 *)

PERFECT == "perfect"
GOOD == "good"
PARTIAL == "partial"
POOR == "poor"
INCOMPATIBLE == "incompatible"

\* adapterDatabase.get(port) || []
adapterDatabase(port) ==
    CASE port = <<"v", "g", "a">> ->
            <<[id |-> <<"v", "g", "a", "_", "t", "o", "_", "h", "d", "m", "i">>, name |-> <<"V", "G", "A", " ", "t", "o", " ", "H", "D", "M", "I", " ", "A", "d", "a", "p", "t", "e", "r">>, outputPort |-> <<"H", "D", "M", "I">>,
               signalType |-> <<"a", "n", "a", "l", "o", "g", "_", "t", "o", "_", "d", "i", "g", "i", "t", "a", "l">>, requiresPower |-> TRUE,
               compatibility |-> [categories |-> {GRAPHICS, MOTHERBOARD}, minVoltage |-> Num(5), maxVoltage |-> Num(12)],
               reliabilityFactor |-> Frac(85, 100), costRange |-> [min |-> Num(500), max |-> Num(1200)]],
              [id |-> <<"v", "g", "a", "_", "t", "o", "_", "d", "v", "i">>, name |-> <<"V", "G", "A", " ", "t", "o", " ", "D", "V", "I", "-", "I", " ", "A", "d", "a", "p", "t", "e", "r">>, outputPort |-> <<"D", "V", "I", "-", "I">>,
               signalType |-> <<"a", "n", "a", "l", "o", "g", "_", "t", "o", "_", "a", "n", "a", "l", "o", "g">>, requiresPower |-> FALSE,
               compatibility |-> [categories |-> {GRAPHICS, MOTHERBOARD}, minVoltage |-> Num(0), maxVoltage |-> Num(0)],
               reliabilityFactor |-> Frac(95, 100), costRange |-> [min |-> Num(200), max |-> Num(500)]]>>
      [] port = <<"d", "v", "i">> ->
            <<[id |-> <<"d", "v", "i", "_", "t", "o", "_", "h", "d", "m", "i">>, name |-> <<"D", "V", "I", " ", "t", "o", " ", "H", "D", "M", "I", " ", "A", "d", "a", "p", "t", "e", "r">>, outputPort |-> <<"H", "D", "M", "I">>,
               signalType |-> <<"d", "i", "g", "i", "t", "a", "l", "_", "t", "o", "_", "d", "i", "g", "i", "t", "a", "l">>, requiresPower |-> FALSE,
               compatibility |-> [categories |-> {GRAPHICS}, minVoltage |-> Num(0), maxVoltage |-> Num(0)],
               reliabilityFactor |-> Frac(98, 100), costRange |-> [min |-> Num(300), max |-> Num(800)]],
              [id |-> <<"d", "v", "i", "_", "t", "o", "_", "d", "i", "s", "p", "l", "a", "y", "p", "o", "r", "t">>, name |-> <<"D", "V", "I", " ", "t", "o", " ", "D", "i", "s", "p", "l", "a", "y", "P", "o", "r", "t", " ", "A", "d", "a", "p", "t", "e", "r">>, outputPort |-> <<"D", "i", "s", "p", "l", "a", "y", "P", "o", "r", "t">>,
               signalType |-> <<"d", "i", "g", "i", "t", "a", "l", "_", "t", "o", "_", "d", "i", "g", "i", "t", "a", "l">>, requiresPower |-> TRUE,
               compatibility |-> [categories |-> {GRAPHICS}, minVoltage |-> Num(5), maxVoltage |-> Num(5)],
               reliabilityFactor |-> Frac(88, 100), costRange |-> [min |-> Num(1500), max |-> Num(3000)]]>>
      [] port = <<"p", "s", "2">> ->
            <<[id |-> <<"p", "s", "2", "_", "t", "o", "_", "u", "s", "b">>, name |-> <<"P", "S", "/", "2", " ", "t", "o", " ", "U", "S", "B", " ", "A", "d", "a", "p", "t", "e", "r">>, outputPort |-> <<"U", "S", "B", "-", "A">>,
               signalType |-> <<"s", "e", "r", "i", "a", "l", "_", "t", "o", "_", "u", "s", "b">>, requiresPower |-> FALSE,
               compatibility |-> [categories |-> {PERIPHERALS, MOTHERBOARD}, minVoltage |-> Num(5), maxVoltage |-> Num(5)],
               reliabilityFactor |-> Frac(92, 100), costRange |-> [min |-> Num(150), max |-> Num(400)]]>>
      [] port = <<"s", "e", "r", "i", "a", "l">> ->
            <<[id |-> <<"s", "e", "r", "i", "a", "l", "_", "t", "o", "_", "u", "s", "b">>, name |-> <<"S", "e", "r", "i", "a", "l", " ", "t", "o", " ", "U", "S", "B", " ", "A", "d", "a", "p", "t", "e", "r">>, outputPort |-> <<"U", "S", "B", "-", "A">>,
               signalType |-> <<"s", "e", "r", "i", "a", "l", "_", "t", "o", "_", "u", "s", "b">>, requiresPower |-> FALSE,
               compatibility |-> [categories |-> {PERIPHERALS, MOTHERBOARD}, minVoltage |-> Num(5), maxVoltage |-> Num(5)],
               reliabilityFactor |-> Frac(90, 100), costRange |-> [min |-> Num(400), max |-> Num(1000)]]>>
      [] port = <<"p", "a", "r", "a", "l", "l", "e", "l">> ->
            <<[id |-> <<"p", "a", "r", "a", "l", "l", "e", "l", "_", "t", "o", "_", "u", "s", "b">>, name |-> <<"P", "a", "r", "a", "l", "l", "e", "l", " ", "t", "o", " ", "U", "S", "B", " ", "A", "d", "a", "p", "t", "e", "r">>, outputPort |-> <<"U", "S", "B", "-", "A">>,
               signalType |-> <<"p", "a", "r", "a", "l", "l", "e", "l", "_", "t", "o", "_", "u", "s", "b">>, requiresPower |-> FALSE,
               compatibility |-> [categories |-> {PERIPHERALS}, minVoltage |-> Num(5), maxVoltage |-> Num(5)],
               reliabilityFactor |-> Frac(85, 100), costRange |-> [min |-> Num(600), max |-> Num(1500)]]>>
      [] port = <<"i", "d", "e">> ->
            <<[id |-> <<"i", "d", "e", "_", "t", "o", "_", "s", "a", "t", "a">>, name |-> <<"I", "D", "E", " ", "t", "o", " ", "S", "A", "T", "A", " ", "A", "d", "a", "p", "t", "e", "r">>, outputPort |-> <<"S", "A", "T", "A">>,
               signalType |-> <<"p", "a", "r", "a", "l", "l", "e", "l", "_", "t", "o", "_", "s", "e", "r", "i", "a", "l">>, requiresPower |-> TRUE,
               compatibility |-> [categories |-> {STORAGE, MOTHERBOARD}, minVoltage |-> Num(5), maxVoltage |-> Num(12)],
               reliabilityFactor |-> Frac(88, 100), costRange |-> [min |-> Num(800), max |-> Num(2000)]],
              [id |-> <<"i", "d", "e", "_", "t", "o", "_", "u", "s", "b">>, name |-> <<"I", "D", "E", " ", "t", "o", " ", "U", "S", "B", " ", "A", "d", "a", "p", "t", "e", "r">>, outputPort |-> <<"U", "S", "B", "-", "A">>,
               signalType |-> <<"p", "a", "r", "a", "l", "l", "e", "l", "_", "t", "o", "_", "u", "s", "b">>, requiresPower |-> TRUE,
               compatibility |-> [categories |-> {STORAGE}, minVoltage |-> Num(5), maxVoltage |-> Num(12)],
               reliabilityFactor |-> Frac(82, 100), costRange |-> [min |-> Num(1200), max |-> Num(2500)]]>>
      [] OTHER -> <<>>

\* the keys of the adapterDatabase
AdapterPorts == {<<"v", "g", "a">>, <<"d", "v", "i">>, <<"p", "s", "2">>, <<"s", "e", "r", "i", "a", "l">>, <<"p", "a", "r", "a", "l", "l", "e", "l">>, <<"i", "d", "e">>}

categoryScore(adapter, component) ==
    IF component.category \in adapter.compatibility.categories THEN Num(40) ELSE Num(0)

voltageDiff(compatibility, componentVoltage) ==
    MathMin(MathAbs(NumSub(componentVoltage, compatibility.minVoltage)),
            MathAbs(NumSub(componentVoltage, compatibility.maxVoltage)))

voltageScore(compatibility, componentVoltage) ==
    IF compatibility.minVoltage = Num(0) /\ compatibility.maxVoltage = Num(0) THEN Num(30)
    ELSE IF /\ NumGe(componentVoltage, compatibility.minVoltage)
            /\ NumLe(componentVoltage, compatibility.maxVoltage)
    THEN Num(30)
    ELSE MathMax(Num(0), NumSub(Num(30), NumMul(voltageDiff(compatibility, componentVoltage), Num(10))))

powerScore(adapter, component) ==
    IF ~adapter.requiresPower THEN Num(20)
    ELSE IF NumGt(component.specifications.electrical.powerConsumption, Num(0)) THEN Num(20)
    ELSE Num(0)

interfaceScore(outputPort, componentInterface) ==
    IF /\ Truthy(componentInterface)
       /\ (includes(componentInterface, outputPort) \/ includes(outputPort, componentInterface))
    THEN Num(10)
    ELSE Num(0)

\* (score / maxScore) * 100, maxScore being 40 + 30 + 20 + 10
compatibilityPercentage(adapter, component) ==
    NumMul(NumDiv(NumAdd(NumAdd(NumAdd(categoryScore(adapter, component),
                                       voltageScore(adapter.compatibility,
                                                    component.specifications.electrical.voltage)),
                                powerScore(adapter, component)),
                         interfaceScore(adapter.outputPort,
                                        component.specifications.compatibility.interfaceType)),
                  Num(100)),
           Num(100))

\* the bands with a fault: the thresholds of GOOD and PARTIAL are exchanged
compatibilityLevelOfSwapped(percentage) ==
    IF NumGe(percentage, Num(90)) THEN PERFECT
    ELSE IF NumGe(percentage, Num(50)) THEN GOOD
    ELSE IF NumGe(percentage, Num(75)) THEN PARTIAL
    ELSE IF NumGe(percentage, Num(25)) THEN POOR
    ELSE INCOMPATIBLE

compatibilityLevelOf(percentage) ==
    IF NumGe(percentage, Num(90)) THEN PERFECT
    ELSE IF NumGe(percentage, Num(75)) THEN GOOD
    ELSE IF NumGe(percentage, Num(50)) THEN PARTIAL
    ELSE IF NumGe(percentage, Num(25)) THEN POOR
    ELSE INCOMPATIBLE

assessCompatibility(adapter, component) ==
    compatibilityLevelOf(compatibilityPercentage(adapter, component))

\* the order in which identifyAdapters sorts the levels
compatOrder(level) ==
    CASE level = PERFECT -> 5
      [] level = GOOD -> 4
      [] level = PARTIAL -> 3
      [] level = POOR -> 2
      [] level = INCOMPATIBLE -> 1

\* isAdapterCompatible with a fault: a component without power information
\* is not turned away from an adapter that requires power
isAdapterCompatibleUnpowered(adapter, component) ==
    /\ component.category \in adapter.compatibility.categories
    /\ ~(/\ NumGt(adapter.compatibility.minVoltage, Num(0))
         /\ \/ NumLt(component.specifications.electrical.voltage, adapter.compatibility.minVoltage)
            \/ NumGt(component.specifications.electrical.voltage, adapter.compatibility.maxVoltage))

\* isAdapterCompatible with a fault: the voltage range is checked although
\* the adapter declares none
isAdapterCompatibleAlwaysRanged(adapter, component) ==
    /\ component.category \in adapter.compatibility.categories
    /\ ~(\/ NumLt(component.specifications.electrical.voltage, adapter.compatibility.minVoltage)
         \/ NumGt(component.specifications.electrical.voltage, adapter.compatibility.maxVoltage))
    /\ ~(/\ adapter.requiresPower
         /\ component.specifications.electrical.powerConsumption = Num(0))

isAdapterCompatible(adapter, component) ==
    /\ component.category \in adapter.compatibility.categories
    /\ ~(/\ NumGt(adapter.compatibility.minVoltage, Num(0))
         /\ \/ NumLt(component.specifications.electrical.voltage, adapter.compatibility.minVoltage)
            \/ NumGt(component.specifications.electrical.voltage, adapter.compatibility.maxVoltage))
    /\ ~(/\ adapter.requiresPower
         /\ component.specifications.electrical.powerConsumption = Num(0))

authenticityFactor(authenticity) ==
    CASE authenticity = OEM -> Num(1)
      [] authenticity = FIRST_COPY -> Frac(9, 10)
      [] authenticity = GENERIC -> Frac(8, 10)
      [] OTHER -> Frac(7, 10)

calculateReliabilityScore(adapter, component) ==
    MathMin(Num(1), MathMax(Num(0),
        NumMul(NumMul(adapter.reliabilityFactor, authenticityFactor(component.authenticity)),
               IF /\ adapter.requiresPower
                  /\ NumLt(component.specifications.electrical.powerConsumption, Num(10))
               THEN Frac(9, 10)
               ELSE Num(1))))

\* no adapter of the database declares a difficulty, so the markup for a
\* hard or expert adapter is never added
estimateAdapterCost(adapter) ==
    MathRound(NumMul(NumDiv(NumAdd(adapter.costRange.min, adapter.costRange.max), Num(2)),
                     NumAdd(NumAdd(Num(1), IF adapter.requiresPower THEN Frac(2, 10) ELSE Num(0)),
                            IF includes(adapter.signalType, <<"a", "n", "a", "l", "o", "g", "_", "t", "o", "_", "d", "i", "g", "i", "t", "a", "l">>)
                            THEN Frac(3, 10) ELSE Num(0))))

checkAdapterAvailability(adapter) ==
    IF NumGt(adapter.reliabilityFactor, Frac(9, 10)) /\ ~adapter.requiresPower THEN IN_STOCK
    ELSE IF NumGt(adapter.reliabilityFactor, Frac(8, 10)) THEN LIMITED_STOCK
    ELSE OUT_OF_STOCK

\* wiringTemplates.get(adapterId): a sequence of at most one template
wiringTemplates(adapterId) ==
    CASE adapterId = <<"v", "g", "a", "_", "t", "o", "_", "h", "d", "m", "i">> ->
            <<[diagramUrl |-> "/diagrams/vga_to_hdmi.svg",
               pinMappings |-> <<[source |-> "VGA Pin 1 (Red)", target |-> "HDMI Red Channel"],
                                 [source |-> "VGA Pin 2 (Green)", target |-> "HDMI Green Channel"],
                                 [source |-> "VGA Pin 3 (Blue)", target |-> "HDMI Blue Channel"],
                                 [source |-> "VGA Pin 13 (H-Sync)", target |-> "HDMI H-Sync"],
                                 [source |-> "VGA Pin 14 (V-Sync)", target |-> "HDMI V-Sync"],
                                 [source |-> "Power Input", target |-> "USB 5V Power"]>>,
               requiredTools |-> <<"Screwdriver", "Cable tester">>,
               difficulty |-> "medium",
               estimatedTime |-> 15,
               safetyNotes |-> <<"Ensure all devices are powered off before connection",
                                 "Check power requirements before connecting">>]>>
      [] adapterId = <<"p", "s", "2", "_", "t", "o", "_", "u", "s", "b">> ->
            <<[diagramUrl |-> "/diagrams/ps2_to_usb.svg",
               pinMappings |-> <<[source |-> "PS/2 Pin 1 (Data)", target |-> "USB Data+"],
                                 [source |-> "PS/2 Pin 3 (Ground)", target |-> "USB Ground"],
                                 [source |-> "PS/2 Pin 4 (VCC)", target |-> "USB 5V"],
                                 [source |-> "PS/2 Pin 5 (Clock)", target |-> "USB Data-"]>>,
               requiredTools |-> <<"None">>,
               difficulty |-> "easy",
               estimatedTime |-> 5,
               safetyNotes |-> <<"Hot-plugging may not be supported",
                                 "Some legacy devices may require driver installation">>]>>
      [] OTHER -> <<>>

\* s.replace(/\s+/g, '_'): every run of white space becomes one underscore
RECURSIVE ReplaceWhiteSpace(_, _)
ReplaceWhiteSpace(s, k) ==
    IF k > Len(s) THEN <<>>
    ELSE IF s[k] \notin WhiteSpace THEN <<s[k]>> \o ReplaceWhiteSpace(s, k + 1)
    ELSE IF k > 1 /\ s[k - 1] \in WhiteSpace THEN ReplaceWhiteSpace(s, k + 1)
    ELSE <<"_">> \o ReplaceWhiteSpace(s, k + 1)

\* the key generateWiringInstructions looks up: made from adapterType when
\* the argument has that field (an AdapterSolution), else the template's id
adapterIdOf(adapter) ==
    IF "adapterType" \in DOMAIN adapter
    THEN ReplaceWhiteSpace(toLowerCase(adapter.adapterType), 1)
    ELSE adapter.id

genericWiringInstructions ==
    [diagramUrl |-> "/diagrams/generic_adapter.svg",
     pinMapping |-> <<[source |-> "Input Port", target |-> "Output Port"]>>,
     requiredTools |-> <<"Basic tools">>,
     difficulty |-> "medium"]

wiringInstructionsFrom(template) ==
    IF template # <<>>
    THEN [diagramUrl |-> template[1].diagramUrl,
          pinMapping |-> template[1].pinMappings,
          requiredTools |-> template[1].requiredTools,
          difficulty |-> template[1].difficulty]
    ELSE genericWiringInstructions

generateWiringInstructions(adapter) == wiringInstructionsFrom(wiringTemplates(adapterIdOf(adapter)))

generateWiringDiagrams(adapter) == generateWiringInstructions(adapter)

AdapterSolution(adapter, component) ==
    [adapterType |-> adapter.name,
     compatibility |-> assessCompatibility(adapter, component),
     wiringDiagram |-> generateWiringInstructions(adapter),
     reliabilityScore |-> calculateReliabilityScore(adapter, component),
     cost |-> estimateAdapterCost(adapter),
     availability |-> checkAdapterAvailability(adapter)]

\* the loop of identifyAdapters over the adapters of the port
RECURSIVE adapterSolutionsFrom(_, _, _)
adapterSolutionsFrom(adapters, component, k) ==
    IF k > Len(adapters) THEN <<>>
    ELSE IF isAdapterCompatible(adapters[k], component)
    THEN <<AdapterSolution(adapters[k], component)>> \o adapterSolutionsFrom(adapters, component, k + 1)
    ELSE adapterSolutionsFrom(adapters, component, k + 1)

\* the comparator of identifyAdapters
compareAdapterSolutions(a, b) ==
    IF a.compatibility # b.compatibility
    THEN Sign(compatOrder(b.compatibility) - compatOrder(a.compatibility))
    ELSE CompareDifference(b.reliabilityScore, a.reliabilityScore)

identifyAdapters(legacyPort, modernComponent) ==
    ArraySort(adapterSolutionsFrom(adapterDatabase(trim(toLowerCase(legacyPort))), modernComponent, 1),
              compareAdapterSolutions)

----------------------------------------------------------------------------
(* GrayMarketAnalyzer: assessRisks                                         *)

\* riskFactors.get(category) || []
riskFactors(category) ==
    CASE category = PROCESSOR ->
            <<[factor |-> "Counterfeit risk", qualityImpact |-> Frac(2, 10),
               warrantyImpact |-> Frac(1, 10), compatibilityImpact |-> Frac(5, 100)],
              [factor |-> "Overclocking limitations", qualityImpact |-> Frac(1, 10),
               warrantyImpact |-> Frac(5, 100), compatibilityImpact |-> Frac(1, 10)]>>
      [] category = GRAPHICS ->
            <<[factor |-> "Mining card risk", qualityImpact |-> Frac(3, 10),
               warrantyImpact |-> Frac(2, 10), compatibilityImpact |-> Frac(5, 100)],
              [factor |-> "BIOS modification", qualityImpact |-> Frac(15, 100),
               warrantyImpact |-> Frac(25, 100), compatibilityImpact |-> Frac(15, 100)]>>
      [] OTHER -> <<>>

\* the base risks with the impacts of the category's risks k.. added
RECURSIVE adjustRisks(_, _, _)
adjustRisks(risks, categoryRisks, k) ==
    IF k > Len(categoryRisks) THEN risks
    ELSE adjustRisks([qualityRisk |-> NumAdd(risks.qualityRisk, categoryRisks[k].qualityImpact),
                      warrantyRisk |-> NumAdd(risks.warrantyRisk, categoryRisks[k].warrantyImpact),
                      compatibilityRisk |-> NumAdd(risks.compatibilityRisk,
                                                   categoryRisks[k].compatibilityImpact)],
                     categoryRisks, k + 1)

\* the normalisation with a fault: a risk above 1 is left as it is
normalizeRiskFromBelow(risk) == MathMax(Num(0), risk)

normalizeRisk(risk) == MathMin(Num(1), MathMax(Num(0), risk))

identifyRiskFactors(component, qualityRisk, warrantyRisk, compatibilityRisk) ==
    (IF NumGt(qualityRisk, Frac(5, 10))
     THEN <<<<"H", "i", "g", "h", " ", "q", "u", "a", "l", "i", "t", "y", " ", "r", "i", "s", "k", " ", "d", "u", "e", " ", "t", "o", " ", "g", "r", "a", "y", " ", "m", "a", "r", "k", "e", "t", " ", "s", "o", "u", "r", "c", "i", "n", "g">>>> ELSE <<>>)
    \o (IF NumGt(warrantyRisk, Frac(7, 10))
        THEN <<<<"L", "i", "m", "i", "t", "e", "d", " ", "o", "r", " ", "n", "o", " ", "m", "a", "n", "u", "f", "a", "c", "t", "u", "r", "e", "r", " ", "w", "a", "r", "r", "a", "n", "t", "y">>>> ELSE <<>>)
    \o (IF NumGt(compatibilityRisk, Frac(3, 10))
        THEN <<<<"P", "o", "t", "e", "n", "t", "i", "a", "l", " ", "c", "o", "m", "p", "a", "t", "i", "b", "i", "l", "i", "t", "y", " ", "i", "s", "s", "u", "e", "s", " ", "w", "i", "t", "h", " ", "s", "y", "s", "t", "e", "m", " ", "c", "o", "m", "p", "o", "n", "e", "n", "t", "s">>>> ELSE <<>>)
    \o (IF component.authenticity = UNKNOWN_AUTHENTICITY
        THEN <<<<"U", "n", "k", "n", "o", "w", "n", " ", "a", "u", "t", "h", "e", "n", "t", "i", "c", "i", "t", "y", " ", "l", "e", "v", "e", "l">>>> ELSE <<>>)

\* riskFactors.some(factor => factor.includes(word))
someFactorIncludes(factors, word) == \E k \in 1..Len(factors) : includes(factors[k], word)

generateMitigationSuggestions(component, factors) ==
    (IF someFactorIncludes(factors, <<"q", "u", "a", "l", "i", "t", "y">>)
     THEN <<"Request detailed photos and specifications before purchase",
            "Consider purchasing from reputable gray market vendors">>
     ELSE <<>>)
    \o (IF someFactorIncludes(factors, <<"w", "a", "r", "r", "a", "n", "t", "y">>)
        THEN <<"Negotiate for vendor warranty or return policy",
               "Consider extended warranty from third-party providers">>
        ELSE <<>>)
    \o (IF someFactorIncludes(factors, <<"c", "o", "m", "p", "a", "t", "i", "b", "i", "l", "i", "t", "y">>)
        THEN <<"Verify compatibility with existing system components",
               "Test component thoroughly upon receipt">>
        ELSE <<>>)
    \o <<"Compare prices with multiple gray market sources",
         "Factor in potential replacement costs when budgeting">>

RiskAssessment(component, qualityRisk, warrantyRisk, compatibilityRisk, factors) ==
    [qualityRisk |-> qualityRisk,
     warrantyRisk |-> warrantyRisk,
     compatibilityRisk |-> compatibilityRisk,
     overallRisk |-> NumDiv(NumAdd(NumAdd(qualityRisk, warrantyRisk), compatibilityRisk), Num(3)),
     riskFactors |-> factors,
     mitigationSuggestions |-> generateMitigationSuggestions(component, factors)]

normalizedAssessment(component, qualityRisk, warrantyRisk, compatibilityRisk) ==
    RiskAssessment(component, qualityRisk, warrantyRisk, compatibilityRisk,
                   identifyRiskFactors(component, qualityRisk, warrantyRisk, compatibilityRisk))

adjustedAssessment(component, risks) ==
    normalizedAssessment(component, normalizeRisk(risks.qualityRisk), normalizeRisk(risks.warrantyRisk),
                         normalizeRisk(risks.compatibilityRisk))

assessRisks(component) ==
    adjustedAssessment(component,
                       adjustRisks([qualityRisk |-> Frac(3, 10), warrantyRisk |-> Frac(8, 10),
                                    compatibilityRisk |-> Frac(2, 10)],
                                   riskFactors(component.category), 1))

----------------------------------------------------------------------------
(* Requests                                                                *)

\* the words the specification strings are made of
Vocabulary == { <<>>, <<"I", "n", "t", "e", "l">>, <<"i", "7", "-", "1", "2", "7", "0", "0", "K">>, <<"3", ".", "6", "G", "H", "z">>, <<"D", "D", "R", "4">>, <<"3", "2", "0", "0", "M", "H", "z">>, <<"c", "p", "u">>,
                <<"1", ".", "3", "v">>, <<"3", "7", "5", "0", "m", "h", "z">>, <<"u", "s", "b">> }

\* the longest specification, in words, that is built from the vocabulary
MaxWords == 2

RECURSIVE Join(_)
Join(words) ==
    IF words = <<>> THEN <<>>
    ELSE IF Len(words) = 1 THEN words[1]
    ELSE words[1] \o <<" ">> \o Join(Tail(words))

\* the specifications of the unit tests and of the README, queries that
\* match no component of the database, specifications that match one
\* pattern of each of two categories, and weights in grams and kilograms
NamedSpecifications == {
    <<"I", "n", "t", "e", "l", " ", "i", "7", "-", "1", "2", "7", "0", "0", "K", " ", "3", ".", "6", "G", "H", "z", " ", "L", "G", "A", "1", "7", "0", "0">>,
    <<"D", "D", "R", "4", " ", "1", "6", "G", "B", " ", "3", "2", "0", "0", "M", "H", "z", " ", "D", "I", "M", "M">>,
    <<" ", " ", "D", "D", "R", "4", " ", " ", " ", "1", "6", "G", "B", " ", " ", " ", "3", "2", "0", "0", "M", "H", "z", " ", " ", " ", "D", "I", "M", "M", " ", " ">>,
    <<"I", "n", "t", "e", "l", " ", "i", "7", "-", "1", "2", "7", "0", "0", "K">>,
    <<"R", "T", "X", " ", "4", "0", "7", "0", " ", "3", "0", "0", "W", " ", "P", "C", "I", "e", " ", "4", ".", "0">>,
    <<"s", "o", "m", "e", " ", "r", "a", "n", "d", "o", "m", " ", "c", "o", "m", "p", "o", "n", "e", "n", "t">>,
    <<"c", "p", "u", " ", "1", ".", "2", "7", "5", "v">>,
    <<"c", "p", "u", " ", "2", "v", " ", "3", "6", "0", "0", "m", "h", "z", " ", "1", "2", "5", "w">>,
    <<"c", "p", "u", " ", "3", "7", "5", "0", "m", "h", "z", " ", "u", "s", "b">>,
    <<"c", "p", "u", " ", "3", "6", "0", "0", "m", "h", "z", " ", "l", "g", "a", "1", "7", "0", "0", " ", "u", "s", "b">>,
    <<"c", "p", "u", " ", "3", "6", "0", "0", "m", "h", "z", " ", "6", "5", "w">>,
    <<"I", "n", "t", "e", "l", " ", "S", "S", "D">>,
    <<"S", "S", "D", " ", "f", "o", "r", " ", "I", "n", "t", "e", "l">>,
    <<"I", "n", "t", "e", "l", " ", "i", "7", " ", "3", ".", "6", "G", "H", "z">>,
    <<"G", "r", "a", "p", "h", "i", "c", "s", " ", "c", "a", "r", "d", " ", "1", ".", "2", "k", "g">>,
    <<"f", "a", "n", " ", "5", "0", "g">>,
    <<"f", "a", "n", " ", "5", "0", "g", " ", "i", "n", " ", "a", " ", "1", "k", "g", " ", "b", "o", "x">> }

Specifications ==
    NamedSpecifications
        \cup { Join(words) : words \in UNION { [1..n -> Vocabulary] : n \in 0..MaxWords } }

\* the components whose authenticity is assessed: the database, and every
\* combination of the values below
TestComponents ==
    { [id |-> "test", partNumber |-> partNumber, category |-> category,
       specifications |-> [
          electrical |-> [voltage |-> Frac(12, 10), current |-> Num(10),
                          frequency |-> Num(frequency), powerConsumption |-> Num(power)],
          physical |-> [length |-> Num(length), width |-> Num(40), height |-> Num(height),
                        weight |-> Num(weight), formFactor |-> UNKNOWN],
          compatibility |-> [socketType |-> Undefined, interfaceType |-> Undefined,
                             pinConfiguration |-> <<>>]],
       authenticity |-> authenticity, availability |-> IN_STOCK,
       location |-> getDefaultLocation] :
         partNumber \in {<<"i", "7", "-", "1", "2", "7", "0", "0", "K">>, <<"X", "1", "6", "G", "B">>},
         category \in {PROCESSOR, MEMORY, GRAPHICS, STORAGE},
         frequency \in {0, 3600},
         power \in {0, 125},
         length \in {0, 40},
         height \in {0, 8},
         weight \in {0, 72, 130},
         authenticity \in {OEM, FIRST_COPY, GENERIC, UNKNOWN_AUTHENTICITY} }

Components == { componentDatabase[k] : k \in 1..Len(componentDatabase) } \cup TestComponents

\* a component of an inventory; pricing is <<>> when the component has none
Part(id, category, voltage, current, powerConsumption, weight, interfaceType, authenticity, pricing) ==
    [id |-> id, partNumber |-> UNKNOWN, category |-> category,
     specifications |-> [
        electrical |-> [voltage |-> Num(voltage), current |-> Num(current),
                        frequency |-> Num(0), powerConsumption |-> Num(powerConsumption)],
        physical |-> [length |-> Num(100), width |-> Num(50), height |-> Num(20),
                      weight |-> Num(weight), formFactor |-> UNKNOWN],
        compatibility |-> [socketType |-> Undefined, interfaceType |-> interfaceType,
                           pinConfiguration |-> <<>>]],
     authenticity |-> authenticity, availability |-> IN_STOCK,
     location |-> getDefaultLocation, pricing |-> pricing]

Priced(retailPrice) == <<[retailPrice |-> Num(retailPrice)]>>

\* what an inventory is made of: power supplies (one too heavy to pair), a
\* graphics card, a 5 V memory module, fans (two of cool-2 draw exactly 50 A)
\* and a peripheral that declares no interface
InventoryItems == {
    Part("psu-1", POWER_SUPPLY, 12, 30, 50, 2000, <<"A", "T", "X">>, OEM, Priced(4000)),
    Part("psu-2", POWER_SUPPLY, 12, 20, 50, 3500, <<"A", "T", "X">>, GENERIC, <<>>),
    Part("gpu-1", GRAPHICS, 12, 10, 150, 1000, <<"P", "C", "I", "e">>, OEM, Priced(30000)),
    Part("mem-1", MEMORY, 5, 5, 5, 50, <<"D", "D", "R", "4">>, FIRST_COPY, Priced(6500)),
    Part("cool-1", COOLING, 12, 1, 5, 200, <<"4", "-", "p", "i", "n">>, OEM, Priced(800)),
    Part("cool-2", COOLING, 12, 25, 40, 500, <<"4", "-", "p", "i", "n">>, GENERIC, Priced(1500)),
    Part("per-1", PERIPHERALS, 12, 2, 10, 300, Undefined, GENERIC, <<>>) }

\* the longest inventory
MaxInventory == 3

Inventories == UNION { [1..n -> InventoryItems] : n \in 0..MaxInventory }

\* one target component of each category with a template, and a processor
TargetComponents ==
    { Part("target", category, 12, 10, 100, 500, <<"P", "C", "I", "e">>, OEM, Priced(10000)) :
        category \in {POWER_SUPPLY, GRAPHICS, MEMORY, COOLING, PROCESSOR} }

\* the solutions whose safety is validated: one for every inventory
CandidateSolutions ==
    { JugaadSolution(Part("target", GRAPHICS, 12, 10, 100, 500, <<"P", "C", "I", "e">>, OEM, Priced(10000)),
                     components, Frac(54, 100), Frac(9, 10),
                     workaroundDatabase["GRAPHICS"][1], Num(700), Num(80)) :
        components \in Inventories }

\* the solutions that are ranked: every combination of two reliabilities,
\* two complexities and two costs
ScoredSolutions ==
    { JugaadSolution(Part("target", GRAPHICS, 12, 10, 100, 500, <<"P", "C", "I", "e">>, OEM, Priced(10000)),
                     <<>>, Frac(reliability, 100), Frac(complexity, 100),
                     workaroundDatabase["GRAPHICS"][1], Num(cost), Num(80)) :
        reliability \in {45, 63}, complexity \in {70, 80}, cost \in {700, 1200} }

\* the longest list of solutions that is ranked
MaxSolutions == 3

SolutionLists == UNION { [1..n -> ScoredSolutions] : n \in 0..MaxSolutions }

\* the components that are negotiated: processors with and without a price,
\* a memory module, and a graphics card, whose category has no tiers
NegotiatedComponents == {
    Part("cpu-1", PROCESSOR, 1, 65, 65, 50, <<"L", "G", "A">>, OEM, Priced(25000)),
    Part("cpu-2", PROCESSOR, 1, 65, 65, 50, <<"L", "G", "A">>, GENERIC, <<>>),
    Part("mem-1", MEMORY, 5, 5, 5, 50, <<"D", "D", "R", "4">>, FIRST_COPY, Priced(6500)),
    Part("gpu-1", GRAPHICS, 12, 10, 150, 1000, <<"P", "C", "I", "e">>, OEM, Priced(30000)) }

\* the greatest quantity that is negotiated
MaxQuantity == 51

Quantities == 0..MaxQuantity

\* no vendor, the vendor with a profile, a vendor without one
VendorIds == {Undefined, <<"v", "e", "n", "d", "o", "r", "_", "0", "0", "1">>, <<"v", "e", "n", "d", "o", "r", "_", "9", "9", "9">>}

\* Date.getMonth()
Months == 0..11

\* every adapter of the database
Adapters ==
    UNION { { adapterDatabase(port)[k] : k \in 1..Len(adapterDatabase(port)) } : port \in AdapterPorts }

\* the voltages of the components that are bridged: inside and outside the
\* ranges of the adapters, by whole and by half volts
BridgedVoltages == {Num(0), Num(3), Frac(9, 2), Num(5), Num(7), Num(12), Frac(25, 2), Num(14)}

\* the components that are bridged: with, without and with negative power
\* information, with and without an interface that an adapter's output
\* port matches, original and generic
BridgedComponents ==
    { [Part("modern", category, 5, 1, powerConsumption, 300, interfaceType, authenticity, <<>>)
          EXCEPT !.specifications.electrical.voltage = voltage] :
        category \in {GRAPHICS, STORAGE, PERIPHERALS, MOTHERBOARD},
        voltage \in BridgedVoltages,
        powerConsumption \in {-5, 0, 5, 15},
        interfaceType \in {Undefined, <<"H", "D", "M", "I", " ", "2", ".", "0">>, <<"U", "S", "B">>},
        authenticity \in {OEM, GENERIC} }

\* the components whose risks are assessed: of every category and
\* authenticity level, at two voltages, priced and not
RiskedComponents ==
    { Part("risked", category, voltage, 1, 50, 300, Undefined, authenticity, pricing) :
        category \in {PROCESSOR, MEMORY, GRAPHICS, STORAGE, MOTHERBOARD, POWER_SUPPLY, COOLING, PERIPHERALS},
        voltage \in {5, 12},
        authenticity \in {OEM, FIRST_COPY, GENERIC, UNKNOWN_AUTHENTICITY},
        pricing \in {<<>>, Priced(25000)} }

\* the legacy ports that adapters are looked for: keys of the database as
\* they are, in capitals and padded, and ports the database does not know
LegacyPorts ==
    {<<"v", "g", "a">>, <<" ", "V", "G", "A", " ">>, <<"D", "v", "i">>, <<"p", "s", "2">>, <<"P", "S", "/", "2">>, <<"s", "e", "r", "i", "a", "l">>, <<"p", "a", "r", "a", "l", "l", "e", "l">>, <<"I", "D", "E">>, <<"s", "c", "s", "i">>, <<>>}

\* the solutions that identifyAdapters produces
IdentifiedSolutions ==
    UNION { { identifyAdapters(legacyPort, component)[k] :
                k \in 1..Len(identifyAdapters(legacyPort, component)) } :
            legacyPort \in LegacyPorts, component \in BridgedComponents }

\* the budgets that quantities are optimised for: none, below and at one
\* unit, between and at the tier boundaries, and bulk
Budgets == {0, 6000, 6500, 25000, 26000, 30000, 65000, 100000, 120000, 130000, 600000, 1000000}

\* the specifications that are validated: every numeric field negative or
\* not, the fields of the category rules also zero, with and without a
\* socket type
ValidatedSpecifications ==
    { [partNumber |-> <<"t", "e", "s", "t">>, category |-> category,
       electricalSpecs |-> [voltage |-> Num(voltage), current |-> Num(current),
                            frequency |-> Num(frequency), powerConsumption |-> Num(powerConsumption)],
       physicalSpecs |-> [length |-> Num(length), width |-> Num(width), height |-> Num(height),
                          weight |-> Num(weight), formFactor |-> UNKNOWN],
       compatibility |-> [socketType |-> socketType, interfaceType |-> Undefined,
                          pinConfiguration |-> <<>>]] :
        category \in {PROCESSOR, MEMORY, GRAPHICS, STORAGE},
        voltage \in {-1, 12}, current \in {-1, 10},
        frequency \in {-1, 0, 3600}, powerConsumption \in {-1, 0, 125},
        length \in {-1, 37}, width \in {-1, 37}, height \in {-1, 7}, weight \in {-1, 85},
        socketType \in {Undefined, <<"D", "D", "R", "4">>} }

Pending == [done |-> FALSE]
\* the response to a call made in a month
DoneAt(value, month) == [done |-> TRUE, value |-> value, month |-> month]
Done(value) == [done |-> TRUE, value |-> value]

InitParser ==
    /\ request \in { [op |-> "parseSpecification", arg |-> input] : input \in Specifications }
                   \cup { [op |-> "validateParameters", arg |-> specs] : specs \in ValidatedSpecifications }
    /\ response = Pending
    /\ previous = Pending

InitSearch ==
    /\ request \in { [op |-> "searchComponents", arg |-> input] : input \in Specifications }
    /\ response = Pending
    /\ previous = Pending

InitAuthenticity ==
    /\ request \in { [op |-> "calculateAuthenticityScore", arg |-> component] : component \in Components }
    /\ response = Pending
    /\ previous = Pending

InitJugaad ==
    /\ request \in { [op |-> "findAlternatives",
                       arg |-> [targetComponent |-> target, availableInventory |-> inventory]] :
                         target \in TargetComponents, inventory \in Inventories }
                   \cup { [op |-> "validateSafety", arg |-> solution] : solution \in CandidateSolutions }
                   \cup { [op |-> "rankSolutions", arg |-> solutions] : solutions \in SolutionLists }
    /\ response = Pending
    /\ previous = Pending

InitNegotiation ==
    /\ request \in { [op |-> "calculateDiscount",
                       arg |-> [component |-> component, quantity |-> quantity, vendorId |-> vendorId]] :
                         component \in NegotiatedComponents, quantity \in Quantities,
                         vendorId \in VendorIds }
                   \cup { [op |-> "optimizeQuantity", arg |-> [component |-> component, budget |-> budget]] :
                            component \in NegotiatedComponents, budget \in Budgets }
    /\ response = Pending
    /\ previous = Pending

InitBridge ==
    /\ request \in { [op |-> "assessCompatibility", arg |-> [adapter |-> adapter, component |-> component]] :
                         adapter \in Adapters, component \in BridgedComponents }
                  \cup { [op |-> "identifyAdapters",
                          arg |-> [legacyPort |-> legacyPort, modernComponent |-> component]] :
                         legacyPort \in LegacyPorts, component \in BridgedComponents }
                  \cup { [op |-> "generateWiringDiagrams", arg |-> adapter] :
                         adapter \in IdentifiedSolutions }
    /\ response = Pending
    /\ previous = Pending

InitGrayMarket ==
    /\ request \in { [op |-> "assessRisks", arg |-> component] : component \in RiskedComponents }
    /\ response = Pending
    /\ previous = Pending

Init ==
    \/ InitParser
    \/ InitSearch
    \/ InitAuthenticity
    \/ InitJugaad
    \/ InitNegotiation
    \/ InitBridge
    \/ InitGrayMarket

ParseSpecification ==
    /\ request.op = "parseSpecification"
    /\ ~response.done
    /\ response' = Done(parseSpecification(request.arg))
    /\ UNCHANGED <<request, previous>>

ValidateParameters ==
    /\ request.op = "validateParameters"
    /\ ~response.done
    /\ response' = Done(validateParameters(request.arg))
    /\ UNCHANGED <<request, previous>>

SearchComponents ==
    /\ request.op = "searchComponents"
    /\ ~response.done
    /\ response' = Done(searchComponents(request.arg))
    /\ UNCHANGED <<request, previous>>

CalculateAuthenticityScore ==
    /\ request.op = "calculateAuthenticityScore"
    /\ ~response.done
    /\ response' = Done(calculateAuthenticityScore(request.arg))
    /\ UNCHANGED <<request, previous>>

FindAlternatives ==
    /\ request.op = "findAlternatives"
    /\ ~response.done
    /\ response' = Done(findAlternatives(request.arg.targetComponent, request.arg.availableInventory))
    /\ UNCHANGED <<request, previous>>

ValidateSafety ==
    /\ request.op = "validateSafety"
    /\ ~response.done
    /\ response' = Done(validateSafety(request.arg))
    /\ UNCHANGED <<request, previous>>

RankSolutions ==
    /\ request.op = "rankSolutions"
    /\ ~response.done
    /\ response' = Done(rankSolutions(request.arg))
    /\ UNCHANGED <<request, previous>>

\* calculateDiscount, called at most twice with the same arguments; the
\* clock may have moved to any month between the calls
CalculateDiscount ==
    /\ request.op = "calculateDiscount"
    /\ ~previous.done
    /\ \E currentMonth \in Months :
          response' = DoneAt(calculateDiscount(request.arg.component, Num(request.arg.quantity),
                                               request.arg.vendorId, currentMonth),
                             currentMonth)
    /\ previous' = response
    /\ UNCHANGED request

AssessCompatibility ==
    /\ request.op = "assessCompatibility"
    /\ ~response.done
    /\ response' = Done(assessCompatibility(request.arg.adapter, request.arg.component))
    /\ UNCHANGED <<request, previous>>

IdentifyAdapters ==
    /\ request.op = "identifyAdapters"
    /\ ~response.done
    /\ response' = Done(identifyAdapters(request.arg.legacyPort, request.arg.modernComponent))
    /\ UNCHANGED <<request, previous>>

GenerateWiringDiagrams ==
    /\ request.op = "generateWiringDiagrams"
    /\ ~response.done
    /\ response' = Done(generateWiringDiagrams(request.arg))
    /\ UNCHANGED <<request, previous>>

AssessRisks ==
    /\ request.op = "assessRisks"
    /\ ~response.done
    /\ response' = Done(assessRisks(request.arg))
    /\ UNCHANGED <<request, previous>>

\* optimizeQuantity; its calls of calculateDiscount read the month
OptimizeQuantity ==
    /\ request.op = "optimizeQuantity"
    /\ ~response.done
    /\ \E currentMonth \in Months :
          response' = DoneAt(optimizeQuantity(request.arg.component, Num(request.arg.budget), currentMonth),
                             currentMonth)
    /\ UNCHANGED <<request, previous>>

Next ==
    \/ ParseSpecification
    \/ ValidateParameters
    \/ SearchComponents
    \/ CalculateAuthenticityScore
    \/ FindAlternatives
    \/ ValidateSafety
    \/ RankSolutions
    \/ CalculateDiscount
    \/ OptimizeQuantity
    \/ AssessCompatibility
    \/ IdentifyAdapters
    \/ GenerateWiringDiagrams
    \/ AssessRisks

Spec == Init /\ [][Next]_vars

NextParser == ParseSpecification \/ ValidateParameters
SpecParser == InitParser /\ [][NextParser]_vars

NextSearch == SearchComponents
SpecSearch == InitSearch /\ [][NextSearch]_vars

NextAuthenticity == CalculateAuthenticityScore
SpecAuthenticity == InitAuthenticity /\ [][NextAuthenticity]_vars

NextJugaad == FindAlternatives \/ ValidateSafety \/ RankSolutions
SpecJugaad == InitJugaad /\ [][NextJugaad]_vars

NextNegotiation == CalculateDiscount \/ OptimizeQuantity
SpecNegotiation == InitNegotiation /\ [][NextNegotiation]_vars

NextBridge == AssessCompatibility \/ IdentifyAdapters \/ GenerateWiringDiagrams
SpecBridge == InitBridge /\ [][NextBridge]_vars

NextGrayMarket == AssessRisks
SpecGrayMarket == InitGrayMarket /\ [][NextGrayMarket]_vars

----------------------------------------------------------------------------
(* Properties                                                              *)

Parsed == request.op = "parseSpecification" /\ response.done
Searched == request.op = "searchComponents" /\ response.done
Assessed == request.op = "calculateAuthenticityScore" /\ response.done

\* C1: for every input, parseSpecification returns a confidence in [0, 1];
\* it starts at 0.5 and only grows, so it is never below 0.5, and it is
\* capped at 1
C1_ConfidenceInUnitInterval ==
    Parsed => /\ IsFinite(response.value.confidence)
              /\ NumGe(response.value.confidence, Num(0))
              /\ NumGe(response.value.confidence, Frac(1, 2))
              /\ NumLe(response.value.confidence, Num(1))

\* a specification that earns all four increments (their sum with the base
\* is 1.3) is given confidence 1
C1_AllIncrementsCapped ==
    /\ Parsed
    /\ response.value.extractedSpecs.partNumber # UNKNOWN
    /\ response.value.extractedSpecs.category # PERIPHERALS
    /\ NumGt(response.value.extractedSpecs.electricalSpecs.frequency, Num(0))
    /\ Truthy(response.value.extractedSpecs.compatibility.socketType)
    /\ response.value.confidence = Num(1)

\* C2: when the input is blank, or the confidence is below 0.3, the
\* ambiguities and validationErrors together hold at least one entry
C2_FeedbackOnBlankOrLowConfidence ==
    Parsed =>
        ((trim(request.arg) = <<>> \/ NumLt(response.value.confidence, Frac(3, 10)))
            => Len(response.value.ambiguities) + Len(response.value.validationErrors) > 0)

\* a specification of white space only is answered with an ambiguity
C2_BlankInputParsed ==
    /\ Parsed
    /\ request.arg # <<>>
    /\ trim(request.arg) = <<>>
    /\ response.value.ambiguities # <<>>

\* C3: "Intel i7-12700K 3.6GHz LGA1700" parses to category processor, a
\* part number containing "i7-12700K", frequency 3600, socket "LGA1700"
\* and a confidence above 0.8
C3_IntelExample ==
    (Parsed /\ request.arg = <<"I", "n", "t", "e", "l", " ", "i", "7", "-", "1", "2", "7", "0", "0", "K", " ", "3", ".", "6", "G", "H", "z", " ", "L", "G", "A", "1", "7", "0", "0">>) =>
        /\ response.value.extractedSpecs.category = PROCESSOR
        /\ includes(response.value.extractedSpecs.partNumber, <<"i", "7", "-", "1", "2", "7", "0", "0", "K">>)
        /\ response.value.extractedSpecs.electricalSpecs.frequency = Num(3600)
        /\ response.value.extractedSpecs.compatibility.socketType = <<"L", "G", "A", "1", "7", "0", "0">>
        /\ NumGt(response.value.confidence, Frac(8, 10))

\* a DDR3, DDR4 or DDR5 word of the input
DDRWord == Cat(<<WordB, Grp(Cat(<<LitI(<<"d", "d", "r">>), Chars({"3", "4", "5"})>>)), WordB>>)

\* C4: "DDR4 16GB 3200MHz DIMM" parses to category memory, frequency 3200,
\* socket type "DDR4" and form factor "DIMM"; the DDR word of an input is
\* its socket type
C4_DDRIsSocketType ==
    /\ (Parsed /\ request.arg = <<"D", "D", "R", "4", " ", "1", "6", "G", "B", " ", "3", "2", "0", "0", "M", "H", "z", " ", "D", "I", "M", "M">>) =>
            /\ response.value.extractedSpecs.category = MEMORY
            /\ response.value.extractedSpecs.electricalSpecs.frequency = Num(3200)
            /\ response.value.extractedSpecs.compatibility.socketType = <<"D", "D", "R", "4">>
            /\ response.value.extractedSpecs.physicalSpecs.formFactor = <<"D", "I", "M", "M">>
    /\ (Parsed /\ RegExpTest(DDRWord, request.arg)) =>
            response.value.extractedSpecs.compatibility.socketType
                = toUpperCase(RegExpMatch(request.arg, DDRWord).group1)

\* the component of the database with the given id
DatabaseComponent(id) ==
    componentDatabase[CHOOSE k \in 1..Len(componentDatabase) : componentDatabase[k].id = id]

\* the result list holds the component, with its availability and location
ListsComponent(results, component) ==
    \E k \in 1..Len(results) :
        /\ results[k].component = component
        /\ results[k].availabilityStatus = component.availability
        /\ results[k].location = component.location
        /\ ~results[k].requiresClarification

\* C5: a query that names the part number of an inventory component and
\* nothing else ("Intel i7-12700K", or the part number alone) returns that
\* component with its availability and location, not a clarification request
C5_PartNumberQueryFindsComponent ==
    (Searched /\ request.arg \in {<<"I", "n", "t", "e", "l", " ", "i", "7", "-", "1", "2", "7", "0", "0", "K">>, <<"i", "7", "-", "1", "2", "7", "0", "0", "K">>}) =>
        ListsComponent(response.value.results, DatabaseComponent("cpu-001"))

\* C6: when the parsed query has ambiguities, searchComponents returns
\* exactly one result: the placeholder component, requiresClarification,
\* both scores 0, no alternatives, the parser's ambiguities as the prompts;
\* and no component of the inventory is examined
C6_AmbiguousQueryAsksForClarification ==
    (Searched /\ response.value.parsedSpec.ambiguities # <<>>) =>
        /\ Len(response.value.results) = 1
        /\ response.value.results[1].requiresClarification
        /\ response.value.results[1].component = createPlaceholderComponent(request.arg)
        /\ response.value.results[1].compatibilityScore = Num(0)
        /\ response.value.results[1].qualityScore = Num(0)
        /\ response.value.results[1].alternatives = <<>>
        /\ response.value.results[1].clarificationPrompts = response.value.parsedSpec.ambiguities
        /\ response.value.examined = <<>>

\* an ambiguous query of a category the inventory holds components of is
\* answered with the clarification request
C6_AmbiguousProcessorQuery ==
    /\ Searched
    /\ response.value.parsedSpec.ambiguities # <<>>
    /\ response.value.parsedSpec.extractedSpecs.category = PROCESSOR
    /\ \E k \in 1..Len(componentDatabase) :
          isComponentMatch(componentDatabase[k], response.value.parsedSpec.extractedSpecs)
    /\ response.value.results[1].requiresClarification

\* the result list of a query that is not ambiguous and matches nothing
IsNoMatch(results) ==
    /\ results[1].component.id = "placeholder"
    /\ ~results[1].requiresClarification

\* C7: when a query that is not ambiguous matches no component, the one
\* result is the placeholder; its alternatives are at most 5 components of
\* the query's category, by compatibilityScore descending; and every
\* component of that category with compatibilityScore >= 0.5 is listed
\* while fewer than 5 are
C7_AlternativesFromHalf ==
    (Searched /\ IsNoMatch(response.value.results)) =>
        LET specs == response.value.parsedSpec.extractedSpecs
            alternatives == response.value.results[1].alternatives
        IN  /\ Len(response.value.results) = 1
            /\ Len(alternatives) <= 5
            /\ \A k \in 1..Len(alternatives) : alternatives[k].component.category = specs.category
            /\ \A k \in 1..(Len(alternatives) - 1) :
                  NumGe(alternatives[k].compatibilityScore, alternatives[k + 1].compatibilityScore)
            /\ \A j \in 1..Len(componentDatabase) :
                  (/\ componentDatabase[j].category = specs.category
                   /\ NumGe(calculateCompatibilityScore(componentDatabase[j], specs), Frac(1, 2)))
                    => \/ Len(alternatives) = 5
                       \/ \E k \in 1..Len(alternatives) : alternatives[k].component = componentDatabase[j]

\* in-stock > limited > out-of-stock > unknown
AvailabilityRank(status) ==
    CASE status = IN_STOCK -> 3
      [] status = LIMITED_STOCK -> 2
      [] status = OUT_OF_STOCK -> 1
      [] OTHER -> 0

\* the key (compatibilityScore, qualityScore, availability rank) of a is not
\* below that of b
KeyNotBelow(a, b) ==
    \/ NumGt(a.compatibilityScore, b.compatibilityScore)
    \/ /\ a.compatibilityScore = b.compatibilityScore
       /\ \/ NumGt(a.qualityScore, b.qualityScore)
          \/ /\ a.qualityScore = b.qualityScore
             /\ AvailabilityRank(a.availabilityStatus) >= AvailabilityRank(b.availabilityStatus)

IsMatchList(results) == results[1].component.id # "placeholder"

\* C8: the list of matches searchComponents returns is sorted
\* non-increasing by (compatibilityScore, qualityScore, availability rank):
\* no adjacent pair is out of order
C8_ResultsSorted ==
    (Searched /\ IsMatchList(response.value.results)) =>
        \A k \in 1..(Len(response.value.results) - 1) :
            KeyNotBelow(response.value.results[k], response.value.results[k + 1])

\* two matches are returned in the reverse of their order in the database
C8_TwoMatchesReordered ==
    /\ Searched
    /\ Len(response.value.results) = 2
    /\ response.value.results[1].component.id = "cpu-002"
    /\ response.value.results[2].component.id = "cpu-001"
    /\ NumGt(response.value.results[1].compatibilityScore, response.value.results[2].compatibilityScore)

\* the component meets every criterion the query specifies
MeetsAllSpecified(component, specs) ==
    /\ component.category = specs.category
    /\ \A field \in {"voltage", "frequency", "powerConsumption"} :
          NumGt(specs.electricalSpecs[field], Num(0))
            => component.specifications.electrical[field] = specs.electricalSpecs[field]
    /\ \A field \in {"socketType", "interfaceType"} :
          Truthy(specs.compatibility[field])
            => component.specifications.compatibility[field] = specs.compatibility[field]

\* C9: a criterion group the query says nothing about is left out of the
\* denominator of compatibilityScore, so a component that meets every
\* criterion the query does specify is scored 1
C9_UnspecifiedGroupsLeftOut ==
    (Searched /\ IsMatchList(response.value.results)) =>
        \A k \in 1..Len(response.value.results) :
            MeetsAllSpecified(response.value.results[k].component,
                              response.value.parsedSpec.extractedSpecs)
                => response.value.results[k].compatibilityScore = Num(1)

\* C10: for every component, zero power, frequency and footprint included,
\* calculateAuthenticityScore returns a confidenceScore that is a number in
\* [0, 100]
C10_AuthenticityScoreInRange ==
    Assessed => /\ IsFinite(response.value.confidenceScore)
                /\ NumGe(response.value.confidenceScore, Num(0))
                /\ NumLe(response.value.confidenceScore, Num(100))

Alternatives == request.op = "findAlternatives" /\ response.done

\* the templates of the workaround database, whatever their key
AllTemplates ==
    UNION { { workaroundDatabase[key][k] : k \in 1..Len(workaroundDatabase[key]) } :
            key \in DOMAIN workaroundDatabase }

\* the number of items of the inventory the template's predicate accepts
AcceptedCount(template, inventory) ==
    Len(SelectSeq(inventory, LAMBDA component : isComponentSuitableForTemplate(component, template)))

\* C11: when the target's category has a workaround template and the
\* inventory holds at least minimumComponents items the template accepts,
\* findAlternatives returns a solution built from that template
C11_SolutionFromTemplate ==
    Alternatives =>
        \A template \in AllTemplates :
            /\ template.targetCategory = request.arg.targetComponent.category
            /\ AcceptedCount(template, request.arg.availableInventory) >= template.minimumComponents
            => \E k \in 1..Len(response.value) : response.value[k].template.id = template.id

Validated == request.op = "validateSafety" /\ response.done

\* the sum of a sequence of whole numbers
RECURSIVE Total(_)
Total(values) == IF values = <<>> THEN 0 ELSE Head(values)[1] + Total(Tail(values))

TotalCurrent(components) ==
    Total([k \in 1..Len(components) |-> components[k].specifications.electrical.current])

TotalPower(components) ==
    Total([k \in 1..Len(components) |-> components[k].specifications.electrical.powerConsumption])

TotalWeight(components) ==
    Total([k \in 1..Len(components) |-> components[k].specifications.physical.weight])

\* the greatest declared voltage is more than twice the least
VoltageSpread(components) ==
    \E i, j \in 1..Len(components) :
        components[i].specifications.electrical.voltage[1]
            > 2 * components[j].specifications.electrical.voltage[1]

ElectricalFails(components) == VoltageSpread(components) \/ TotalCurrent(components) > 50

ThermalFails(components) ==
    TotalPower(components)
        > 100 * Cardinality({ k \in 1..Len(components) : components[k].category = COOLING })

MechanicalFails(components) == TotalWeight(components) >= 5000

CompatibilityFails(components) ==
    \E k \in 1..Len(components) :
        components[k].specifications.compatibility.interfaceType = Undefined

\* C12: validateSafety is the conjunction of the electrical, thermal,
\* mechanical and compatibility checks: it is false whenever one of them
\* fails, and so for every solution whose currents sum to more than 50 A
C12_UnsafeWhenAnyCheckFails ==
    Validated =>
        /\ response.value = ~(\/ ElectricalFails(request.arg.alternativeComponents)
                              \/ ThermalFails(request.arg.alternativeComponents)
                              \/ MechanicalFails(request.arg.alternativeComponents)
                              \/ CompatibilityFails(request.arg.alternativeComponents))
        /\ TotalCurrent(request.arg.alternativeComponents) > 50 => response.value = FALSE

\* a solution that fails on its total current alone has been validated
C12_OnlyCurrentTooHigh ==
    /\ Validated
    /\ TotalCurrent(request.arg.alternativeComponents) > 50
    /\ ~VoltageSpread(request.arg.alternativeComponents)
    /\ ~ThermalFails(request.arg.alternativeComponents)
    /\ ~MechanicalFails(request.arg.alternativeComponents)
    /\ ~CompatibilityFails(request.arg.alternativeComponents)
    /\ response.value = FALSE

Ranked == request.op = "rankSolutions" /\ response.done

\* solution a may stand before solution b: higher reliability, or the same
\* reliability and lower complexity, or both the same and a cost not higher
MayPrecede(a, b) ==
    \/ NumGt(a.reliabilityScore, b.reliabilityScore)
    \/ /\ a.reliabilityScore = b.reliabilityScore
       /\ NumLt(a.complexityScore, b.complexityScore)
    \/ /\ a.reliabilityScore = b.reliabilityScore
       /\ a.complexityScore = b.complexityScore
       /\ NumLe(a.estimatedCost, b.estimatedCost)

\* C13: the solutions rankSolutions returns, and so those findAlternatives
\* returns, are ordered by reliabilityScore descending, then complexityScore
\* ascending, then estimatedCost ascending
C13_SolutionsRanked ==
    (Ranked \/ Alternatives) =>
        \A k \in 1..(Len(response.value) - 1) : MayPrecede(response.value[k], response.value[k + 1])

\* a list has been reordered, and both tie-breaks decide a place in it
C13_TieBreaksDecide ==
    /\ Ranked
    /\ response.value # request.arg
    /\ \E k \in 1..(Len(response.value) - 1) :
          /\ response.value[k].reliabilityScore = response.value[k + 1].reliabilityScore
          /\ response.value[k].complexityScore # response.value[k + 1].complexityScore
    /\ \E k \in 1..(Len(response.value) - 1) :
          /\ response.value[k].reliabilityScore = response.value[k + 1].reliabilityScore
          /\ response.value[k].complexityScore = response.value[k + 1].complexityScore
          /\ response.value[k].estimatedCost # response.value[k + 1].estimatedCost

\* a calculateDiscount call has returned
Discounted == request.op = "calculateDiscount" /\ response.done

TiersReached(category, quantity) ==
    { k \in 1..Len(quantityTiers(category)) :
        NumLe(quantityTiers(category)[k].minimumQuantity, Num(quantity)) }

\* the reached tier with the greatest minimum
IsGreatestReached(category, quantity, k) ==
    /\ k \in TiersReached(category, quantity)
    /\ \A j \in TiersReached(category, quantity) :
          NumLe(quantityTiers(category)[j].minimumQuantity, quantityTiers(category)[k].minimumQuantity)

\* C15: the quantityDiscount of the priceBreakdown is the discount of the
\* tier with the greatest minimum that the quantity reaches, and 0 when the
\* category has no tiers; it does not decrease when the quantity grows
\* (every quantity is compared with the one before it); it is 30 for a
\* processor at a quantity of 50 or more
C15_QuantityDiscountOfGreatestTier ==
    Discounted =>
        /\ \A k \in 1..Len(quantityTiers(request.arg.component.category)) :
              IsGreatestReached(request.arg.component.category, request.arg.quantity, k) =>
                  response.value.priceBreakdown.quantityDiscount =
                      quantityTiers(request.arg.component.category)[k].discountPercentage
        /\ quantityTiers(request.arg.component.category) = <<>> =>
              response.value.priceBreakdown.quantityDiscount = Num(0)
        /\ request.arg.quantity > 0 =>
              NumLe(getQuantityDiscount(request.arg.component.category,
                                        Num(request.arg.quantity - 1)).discountPercentage,
                    response.value.priceBreakdown.quantityDiscount)
        /\ (request.arg.component.category = PROCESSOR /\ request.arg.quantity >= 50) =>
              response.value.priceBreakdown.quantityDiscount = Num(30)

\* fifty-one processors are in the last tier
C15_ProcessorBulkTier ==
    /\ Discounted
    /\ request.arg.component.category = PROCESSOR
    /\ request.arg.quantity = 51
    /\ response.value.priceBreakdown.quantityDiscount = Num(30)

\* calculateDiscount has been called twice with the same arguments
DiscountedTwice == request.op = "calculateDiscount" /\ previous.done /\ response.done

\* the two calls returned the same prices and the same breakdown
SameDiscount ==
    /\ response.value.discountPercentage = previous.value.discountPercentage
    /\ response.value.recommendedPrice = previous.value.recommendedPrice
    /\ response.value.priceBreakdown = previous.value.priceBreakdown

CompatibilityAssessed == request.op = "assessCompatibility" /\ response.done

\* the compatibility percentage of the assessed adapter and component
AssessedPercentage == compatibilityPercentage(request.arg.adapter, request.arg.component)

\* the band of a percentage: 5 for PERFECT down to 1 for INCOMPATIBLE
Band(percentage) ==
    IF percentage >= 90 THEN 5
    ELSE IF percentage >= 75 THEN 4
    ELSE IF percentage >= 50 THEN 3
    ELSE IF percentage >= 25 THEN 2
    ELSE 1

\* C16: the band of assessCompatibility does not decrease when the
\* percentage grows: PERFECT from 90, GOOD from 75, PARTIAL from 50, POOR
\* from 25, INCOMPATIBLE below; a lower percentage never gets a better band
C16_BandMonotoneInPercentage ==
    CompatibilityAssessed =>
        \A percentage \in 0..100 :
            /\ NumLe(Num(percentage), AssessedPercentage) => Band(percentage) <= compatOrder(response.value)
            /\ NumLe(AssessedPercentage, Num(percentage)) => compatOrder(response.value) <= Band(percentage)

\* a graphics card half a volt under the range of a powered adapter, with no
\* power information: 40 + 25 + 0 + 10 is exactly 75 percent, the first GOOD
C16_ExactlyGood ==
    /\ CompatibilityAssessed
    /\ AssessedPercentage = Num(75)
    /\ response.value = GOOD

\* the number of matching patterns of each category of the pattern table
MatchCounts(input) ==
    [k \in 1..Len(componentPatterns) |-> CountMatches(componentPatterns[k].patterns, 1, input)]

\* the k-th category has strictly more matches than every other
StrictlyGreatest(counts, k) == \A j \in DOMAIN counts : j # k => counts[j] < counts[k]

\* the k-th category has a match, at least as many as every other category
\* and more than every category before it in the table
FirstGreatest(counts, k) ==
    /\ counts[k] > 0
    /\ \A j \in DOMAIN counts : counts[j] <= counts[k]
    /\ \A j \in 1..(k - 1) : counts[j] < counts[k]

StrictlyGreatestOrDefault(counts, category) ==
    /\ \A k \in DOMAIN counts : StrictlyGreatest(counts, k) => category = componentPatterns[k].category
    /\ (\A k \in DOMAIN counts : ~StrictlyGreatest(counts, k)) => category = PERIPHERALS

FirstGreatestOrDefault(counts, category) ==
    /\ \A k \in DOMAIN counts : FirstGreatest(counts, k) => category = componentPatterns[k].category
    /\ (\A k \in DOMAIN counts : counts[k] = 0) => category = PERIPHERALS

\* two categories share the greatest number of matches
TiedForGreatest(counts) ==
    \E j, k \in DOMAIN counts :
        /\ j < k
        /\ counts[j] = counts[k]
        /\ counts[k] > 0
        /\ \A i \in DOMAIN counts : counts[i] <= counts[k]

\* C18: the category of the parsed specification is the one with strictly
\* the most matching patterns, and peripherals when no pattern matches or
\* when two or more categories tie for the most
C18_StrictMaximumOrPeripherals ==
    Parsed => StrictlyGreatestOrDefault(MatchCounts(trim(toLowerCase(request.arg))),
                                        response.value.extractedSpecs.category)

\* C18, amended: the category is the one with the most matching patterns,
\* the first of them in the order of the pattern table when two or more
\* tie, and peripherals when no pattern matches
C18_FirstMaximumOrPeripherals ==
    Parsed => FirstGreatestOrDefault(MatchCounts(trim(toLowerCase(request.arg))),
                                     response.value.extractedSpecs.category)

\* "SSD for Intel" matches one storage and one processor pattern and is
\* parsed as a processor, which comes first in the pattern table
C18_TieGoesToFirstCategory ==
    /\ Parsed
    /\ request.arg = <<"S", "S", "D", " ", "f", "o", "r", " ", "I", "n", "t", "e", "l">>
    /\ TiedForGreatest(MatchCounts(trim(toLowerCase(request.arg))))
    /\ response.value.extractedSpecs.category = PROCESSOR

\* the ambiguities hold the entry
HasAmbiguity(ambiguities, entry) == \E k \in 1..Len(ambiguities) : ambiguities[k] = entry

\* C19: when the parsed category is peripherals and the part number is
\* UNKNOWN, the ambiguities hold the 'category unclear' entry, whether or
\* not a voltage or a frequency was extracted
C19_CategoryUnclearFlagged ==
    (/\ Parsed
     /\ response.value.extractedSpecs.category = PERIPHERALS
     /\ response.value.extractedSpecs.partNumber = UNKNOWN)
        => HasAmbiguity(response.value.ambiguities, CategoryUnclear)

\* the frequency and weight tokens that the patterns match in the input
FrequencyToken(input) == RegExpMatch(input, electricalPatterns.frequency)
WeightToken(input) == RegExpMatch(input, physicalPatterns.weight)

\* the number of the token, times 1000 when the token has the unit
NormalisedTo(token, unit) ==
    IF includes(token.text, unit) THEN NumMul(parseFloat(token.group1), Num(1000))
    ELSE parseFloat(token.group1)

FrequencyFollowsToken(token, frequency) == token.found => frequency = NormalisedTo(token, <<"g", "h", "z">>)
WeightFollowsToken(token, weight) == token.found => weight = NormalisedTo(token, <<"k", "g">>)

\* C20: the extracted frequency is the number of the matched token, times
\* 1000 when that token is in GHz and unchanged when it is in MHz, whatever
\* else the input contains; the weight is times 1000 only when the matched
\* token is in kg
C20_UnitOfMatchedToken ==
    Parsed =>
        /\ FrequencyFollowsToken(FrequencyToken(trim(toLowerCase(request.arg))),
                                 response.value.extractedSpecs.electricalSpecs.frequency)
        /\ WeightFollowsToken(WeightToken(trim(toLowerCase(request.arg))),
                              response.value.extractedSpecs.physicalSpecs.weight)

\* C29: for a quantity of at least 1, calculateDiscount returns a
\* discountPercentage of at least 0, a recommendedPrice of at most the
\* basePrice and savings of at least 0
C29_NeverAboveRetail ==
    (Discounted /\ request.arg.quantity >= 1) =>
        /\ NumGe(response.value.discountPercentage, Num(0))
        /\ NumLe(response.value.recommendedPrice, response.value.basePrice)
        /\ NumGe(response.value.savings, Num(0))

\* an optimizeQuantity call for a component with a positive price has returned
Optimized ==
    /\ request.op = "optimizeQuantity"
    /\ response.done
    /\ NumGt(retailPriceOrZero(request.arg.component), Num(0))

\* the unit price of a tier: what calculateDiscount quotes at its minimum
\* in the month of the call
TierUnitPrice(tier) ==
    calculateDiscount(request.arg.component, tier.minimumQuantity, Undefined, response.month).recommendedPrice

\* the most units the budget buys at a unit price
UnitsWithin(budget, unitPrice) == MathFloor(NumDiv(Num(budget), unitPrice))

\* the tier is affordable: its minimum quantity at its unit price is within
\* the budget
Affordable(tier, unitPrice) == NumLe(NumMul(tier.minimumQuantity, unitPrice), Num(request.arg.budget))

\* no tier buys more units than the result, nor as many at a lower price
NotBeatenBy(tier, unitPrice, result) ==
    Affordable(tier, unitPrice) =>
        /\ NumLe(UnitsWithin(request.arg.budget, unitPrice), result.recommendedQuantity)
        /\ UnitsWithin(request.arg.budget, unitPrice) = result.recommendedQuantity
              => NumLe(result.costPerUnit, unitPrice)

\* C26: for a component with a positive price, optimizeQuantity returns the
\* largest quantity that some tier reached by it makes affordable, at the
\* lowest unit price among equal quantities: no affordable tier is skipped
C26_LargestAffordableQuantity ==
    Optimized =>
        \A k \in 1..Len(quantityTiers(request.arg.component.category)) :
            NotBeatenBy(quantityTiers(request.arg.component.category)[k],
                        TierUnitPrice(quantityTiers(request.arg.component.category)[k]),
                        response.value)

\* what calculateDiscount quotes for the recommended quantity in the month
\* of the optimizeQuantity call
QuotedPrice(result) ==
    calculateDiscount(request.arg.component, result.recommendedQuantity, Undefined, response.month).recommendedPrice

QuoteAgrees(result, quotedPrice) ==
    /\ NumLe(NumMul(result.recommendedQuantity, quotedPrice), Num(request.arg.budget))
    /\ result.costPerUnit = quotedPrice

\* C30: for a component with a positive price, the recommended quantity at
\* the price calculateDiscount quotes for that quantity is within the
\* budget, and costPerUnit is that quoted price
C30_RecommendedQuantityAffordable ==
    Optimized => QuoteAgrees(response.value, QuotedPrice(response.value))

\* a validateParameters call has returned
ParametersValidated == request.op = "validateParameters" /\ response.done

\* a numeric field of the specification is negative
AnyNegative(specs) ==
    \/ specs.electricalSpecs.voltage[1] < 0
    \/ specs.electricalSpecs.current[1] < 0
    \/ specs.electricalSpecs.frequency[1] < 0
    \/ specs.electricalSpecs.powerConsumption[1] < 0
    \/ specs.physicalSpecs.length[1] < 0
    \/ specs.physicalSpecs.width[1] < 0
    \/ specs.physicalSpecs.height[1] < 0
    \/ specs.physicalSpecs.weight[1] < 0

\* the specification breaks the rule of its category
BreaksCategoryRule(specs) ==
    \/ specs.category = PROCESSOR /\ specs.electricalSpecs.frequency[1] = 0
    \/ specs.category = MEMORY /\ specs.compatibility.socketType = <<>>
    \/ specs.category = GRAPHICS /\ specs.electricalSpecs.powerConsumption[1] = 0

\* C21: validateParameters returns false for a specification with a
\* negative voltage, current, frequency, power, length, width, height or
\* weight, for a processor with frequency 0, a memory module without socket
\* type and a graphics card with power 0, and true for every other
C21_ValidExactlyWhenNoRuleBroken ==
    ParametersValidated =>
        (response.value <=> ~(AnyNegative(request.arg) \/ BreaksCategoryRule(request.arg)))

\* the component's part number contains the part number of the query
ContainsPartNumber(component, specs) ==
    /\ specs.partNumber # <<>>
    /\ specs.partNumber # UNKNOWN
    /\ includes(toLowerCase(component.partNumber), toLowerCase(specs.partNumber))

\* every electrical field the query specifies is within 10% of the
\* component's value, and every socket and interface it specifies is the
\* component's
WithinQuery(component, specs) ==
    /\ \A field \in {"voltage", "current", "frequency", "powerConsumption"} :
          NumGt(specs.electricalSpecs[field], Num(0))
            => NumLe(MathAbs(NumSub(component.specifications.electrical[field], specs.electricalSpecs[field])),
                     NumDiv(component.specifications.electrical[field], Num(10)))
    /\ \A field \in {"socketType", "interfaceType"} :
          specs.compatibility[field] # <<>>
            => component.specifications.compatibility[field] = specs.compatibility[field]

IsMatchOf(component, specs) ==
    /\ component.category = specs.category
    /\ ContainsPartNumber(component, specs) \/ WithinQuery(component, specs)

\* C22: every component that searchComponents returns as a match has the
\* category of the query and, unless its part number contains the query's,
\* has every electrical field the query specifies (voltage, current,
\* frequency, power) within 10% of its own value and every socket and
\* interface the query specifies equal to its own
C22_MatchesMeetQuery ==
    (Searched /\ IsMatchList(response.value.results)) =>
        \A k \in 1..Len(response.value.results) :
            IsMatchOf(response.value.results[k].component, response.value.parsedSpec.extractedSpecs)

\* the component with another authenticity level and nothing else changed
WithAuthenticity(component, authenticity) == [component EXCEPT !.authenticity = authenticity]

\* C23: of two components that differ only in authenticity, one OEM and one
\* GENERIC, calculateAuthenticityScore gives the OEM one a confidenceScore
\* greater than or equal to that of the GENERIC one
C23_OEMNotBelowGeneric ==
    (Assessed /\ request.arg.authenticity = OEM) =>
        NumGe(response.value.confidenceScore,
              calculateAuthenticityScore(WithAuthenticity(request.arg, GENERIC)).confidenceScore)

----------------------------------------------------------------------------
\* identifyAdapters has answered
AdaptersIdentified == request.op = "identifyAdapters" /\ response.done

\* the templates registered under the normalised name of the requested port
RegisteredTemplates ==
    LET adapters == adapterDatabase(trim(toLowerCase(request.arg.legacyPort)))
    IN  { adapters[k] : k \in 1..Len(adapters) }

SupportsCategory(adapter, component) == component.category \in adapter.compatibility.categories

\* an adapter declares a voltage window by a positive minimum
WindowContainsVoltage(adapter, component) ==
    NumGt(adapter.compatibility.minVoltage, Num(0)) =>
        /\ NumGe(component.specifications.electrical.voltage, adapter.compatibility.minVoltage)
        /\ NumLe(component.specifications.electrical.voltage, adapter.compatibility.maxVoltage)

LacksRequiredPower(adapter, component) ==
    adapter.requiresPower /\ component.specifications.electrical.powerConsumption = Num(0)

\* the solutions are one for each of the templates and for no other
SolutionsAreFor(solutions, templates) ==
    /\ Len(solutions) = Cardinality(templates)
    /\ { solutions[k].adapterType : k \in 1..Len(solutions) } = { adapter.name : adapter \in templates }

\* C24 as stated: identifyAdapters returns a solution for exactly the
\* templates registered under the normalised port name whose categories
\* include the component's category and whose declared voltage window
\* contains the component's voltage; nothing else removes a template
C24_CategoryAndVoltageDecide ==
    AdaptersIdentified =>
        SolutionsAreFor(response.value,
                        { adapter \in RegisteredTemplates :
                            /\ SupportsCategory(adapter, request.arg.modernComponent)
                            /\ WindowContainsVoltage(adapter, request.arg.modernComponent) })

\* C24 amended: identifyAdapters returns a solution for exactly the templates
\* registered under the normalised port name whose categories include the
\* component's category, whose declared voltage window contains the
\* component's voltage and which do not require power of a component whose
\* power consumption is zero; an unknown port yields an empty list
C24_CategoryVoltageAndPowerDecide ==
    AdaptersIdentified =>
        /\ SolutionsAreFor(response.value,
                           { adapter \in RegisteredTemplates :
                               /\ SupportsCategory(adapter, request.arg.modernComponent)
                               /\ WindowContainsVoltage(adapter, request.arg.modernComponent)
                               /\ ~LacksRequiredPower(adapter, request.arg.modernComponent) })
        /\ trim(toLowerCase(request.arg.legacyPort)) \notin AdapterPorts => response.value = <<>>

\* a padded port in capitals whose powered template is removed for a
\* component of a supported category and voltage that states no power, while
\* the unpowered template of the same port is returned
C24_PoweredTemplateRemoved ==
    /\ AdaptersIdentified
    /\ request.arg.legacyPort = <<" ", "V", "G", "A", " ">>
    /\ request.arg.modernComponent.category = GRAPHICS
    /\ request.arg.modernComponent.specifications.electrical.voltage = Num(12)
    /\ request.arg.modernComponent.specifications.electrical.powerConsumption = Num(0)
    /\ Len(response.value) = 1
    /\ response.value[1].adapterType = <<"V", "G", "A", " ", "t", "o", " ", "D", "V", "I", "-", "I", " ", "A", "d", "a", "p", "t", "e", "r">>

\* C28: for every legacy port and every component whose power consumption
\* is not negative, every solution identifyAdapters returns is PERFECT, so
\* the solutions are in the order of their reliability, highest first
C28_AdmittedIsPerfect ==
    (/\ AdaptersIdentified
     /\ NumGe(request.arg.modernComponent.specifications.electrical.powerConsumption, Num(0)))
        => /\ \A k \in 1..Len(response.value) : response.value[k].compatibility = PERFECT
           /\ \A k \in 1..(Len(response.value) - 1) :
                 NumGe(response.value[k].reliabilityScore, response.value[k + 1].reliabilityScore)

\* two templates admitted for a component that states its power, the one
\* registered second returned first for its higher reliability
C28_TwoPerfectByReliability ==
    /\ AdaptersIdentified
    /\ NumGt(request.arg.modernComponent.specifications.electrical.powerConsumption, Num(0))
    /\ Len(response.value) = 2
    /\ response.value[1].adapterType = <<"V", "G", "A", " ", "t", "o", " ", "D", "V", "I", "-", "I", " ", "A", "d", "a", "p", "t", "e", "r">>
    /\ response.value[2].adapterType = <<"V", "G", "A", " ", "t", "o", " ", "H", "D", "M", "I", " ", "A", "d", "a", "p", "t", "e", "r">>
    /\ response.value[2].compatibility = PERFECT
    /\ NumGt(response.value[1].reliabilityScore, response.value[2].reliabilityScore)

\* generateWiringDiagrams has answered
DiagramGenerated == request.op = "generateWiringDiagrams" /\ response.done

\* the template of the database that a solution was made from
TemplateOf(solution) == CHOOSE adapter \in Adapters : adapter.name = solution.adapterType

\* C25: for a solution of identifyAdapters, generateWiringDiagrams returns
\* the diagram embedded in the solution, which is the one of the wiring
\* template when the solution's template has one (vga_to_hdmi, ps2_to_usb);
\* the generic diagram is returned only when there is no wiring template
C25_DiagramOfTheWiringTemplate ==
    DiagramGenerated =>
        /\ response.value = request.arg.wiringDiagram
        /\ wiringTemplates(TemplateOf(request.arg).id) # <<>> =>
              response.value.diagramUrl = wiringTemplates(TemplateOf(request.arg).id)[1].diagramUrl
        /\ response.value = genericWiringInstructions =>
              wiringTemplates(TemplateOf(request.arg).id) = <<>>

----------------------------------------------------------------------------
\* assessRisks has answered
RisksAssessed == request.op = "assessRisks" /\ response.done

InUnitInterval(x) == NumGe(x, Num(0)) /\ NumLe(x, Num(1))

\* the sum of one kind of impact over the risks of a category, which are
\* two at most
ImpactSum(category, impact) ==
    IF Len(riskFactors(category)) = 0 THEN Num(0)
    ELSE IF Len(riskFactors(category)) = 1 THEN riskFactors(category)[1][impact]
    ELSE NumAdd(riskFactors(category)[1][impact], riskFactors(category)[2][impact])

\* base plus impacts, brought into [0,1]
ClampedRisk(base, impacts) ==
    IF NumGt(NumAdd(base, impacts), Num(1)) THEN Num(1)
    ELSE IF NumLt(NumAdd(base, impacts), Num(0)) THEN Num(0)
    ELSE NumAdd(base, impacts)

\* C27: for every component assessRisks returns a quality, a warranty and a
\* compatibility risk in [0,1], each its base (0.3, 0.8, 0.2) plus the
\* impacts of the category clamped, and an overall risk that is the mean
\* of the three
C27_RisksClampedAndAveraged ==
    RisksAssessed =>
        /\ InUnitInterval(response.value.qualityRisk)
        /\ InUnitInterval(response.value.warrantyRisk)
        /\ InUnitInterval(response.value.compatibilityRisk)
        /\ response.value.qualityRisk =
              ClampedRisk(Frac(3, 10), ImpactSum(request.arg.category, "qualityImpact"))
        /\ response.value.warrantyRisk =
              ClampedRisk(Frac(8, 10), ImpactSum(request.arg.category, "warrantyImpact"))
        /\ response.value.compatibilityRisk =
              ClampedRisk(Frac(2, 10), ImpactSum(request.arg.category, "compatibilityImpact"))
        /\ NumMul(response.value.overallRisk, Num(3)) =
              NumAdd(NumAdd(response.value.qualityRisk, response.value.warrantyRisk),
                     response.value.compatibilityRisk)

\* a graphics card: its warranty risk of 0.8 + 0.2 + 0.25 is cut to 1
C27_WarrantyRiskCut ==
    /\ RisksAssessed
    /\ request.arg.category = GRAPHICS
    /\ response.value.warrantyRisk = Num(1)
    /\ response.value.qualityRisk = Frac(3, 4)
    /\ response.value.overallRisk = Frac(43, 60)

====
